---- MODULE Spec2Model ----
(***************************************************************************)
(* A model of the dispersy tracker (tool/tracker.py), of the pruning       *)
(* policies of distribution.py and of the text pipeline of                 *)
(* debugcommunity.py.                                                      *)
(*                                                                         *)
(* Three specifications share the module:                                  *)
(*   Spec         the tracker: overlays, strikes, destroy, storage         *)
(*   SpecPruning  GlobalTimePruning / NoPruning state of one message       *)
(*   SpecText     the text metas of DebugCommunity and their timeline      *)
(***************************************************************************)
EXTENDS Integers, Sequences, FiniteSets, TLC

(***************************************************************************)
(* Bounds of the model.                                                    *)
(***************************************************************************)
\* _unload_communities ticks are taken only while every strike counter is
\* below this cap (a counter only reaches 3 and stays loaded while the batch
\* cache holds a meta of the overlay).
MaxStrikes == 3


\* last-9-test messages carry a global_time up to this (ten messages are
\* needed before a history of nine evicts one).
MaxLastTime == 10


\* dynamic-resolution-text messages and dispersy-dynamic-settings events
\* carry a global_time from 9 up to MaxDynTime; the overlay sees at most
\* MaxDynEvents settings events and MaxDynMessages text messages.
MaxDynTime == 11
MaxDynEvents == 2
MaxDynMessages == 2


\* A calls create_double_signed_text at most this many times.
MaxRequests == 2


\* The create_* operations of one overlay are called at most this many
\* times.
MaxCreated == 3


\* A generator task of the callback tests yields up to this many times
\* before it raises.
MaxYields == 2


\* At most this many tasks are registered with the engine of the
\* scheduling specification.
MaxTasks == 4


\* A batch of introduction requests has at most this many items.
MaxIntroBatch == 2


\* The clock of the chat overlay goes up to this value.
MaxChatTime == 3

\* A batch of beg-permission messages has at most this many messages.
MaxChatBatch == 2


\* The sequence numbers given to the constructor of a FullSync message go
\* from -1 up to this value.
MaxImplSequence == 3


\* The tracker creates at most this many introduction requests.
MaxWalkRequests == 3


\* One invocation of dispersy_yield_introduce_candidates is asked for at
\* most this many candidates.
MaxIntroduced == 3


\* The tracker of the storage specification is restarted at most this
\* many times.
MaxRestarts == 2


\* The community versions of the prefixes get_conversion is called with
\* are the bytes 0..MaxVersion.
MaxVersion == 4

(***************************************************************************)
(* Program constants.                                                      *)
(***************************************************************************)
\* tracker.py:298  "if community.update_strikes(now) < 3"
StrikeLimit == 3

\* test_unittest.py:45  "Callback.call(..., priority=-512, timeout=10.0)":
\* the seconds Dispersy.stop waits
StopTimeout == 10

\* The overlay clocks of the pruning and text specifications stop here.
MaxGlobalTime == 5

\* GlobalTimePruning(inactive, pruned) is built with pruned up to this.
MaxThreshold == 3

\* The text specification holds at most this many messages and this many
\* timeline events.
MaxMessages == 2
MaxEvents == 2

\* claim_sequence_number is called while the current sequence number is
\* below this; the sync table holds up to MaxStoredAtStart messages of
\* my_member when the overlay is loaded first.
MaxSequence == 4
MaxStoredAtStart == 1

\* The other member sends sequence numbers up to MaxInbound, in at most
\* MaxDeliveries deliveries.
MaxInbound == 3
MaxDeliveries == 4

(***************************************************************************)
(* The universe of the tracker model.                                      *)
(***************************************************************************)
CIDs == {"X", "Y"}

\* Candidates of the candidate table (dispersy.candidates) and the a-priori
\* known bootstrap peers, which are never part of that table (tracker.py:202).
WalkCandidates == {"peer"}
BootstrapCandidates == {"boot"}
Senders == WalkCandidates \cup BootstrapCandidates

\* Community classes of the tracker.
TrackerCommunity == "TrackerCommunity"
TrackerHardKilledCommunity == "TrackerHardKilledCommunity"

\* main(): define_auto_load(TrackerCommunity); define_auto_load(TrackerHardKilledCommunity)
AutoLoadCommunities == {TrackerCommunity, TrackerHardKilledCommunity}

\* Messages of a destroyed overlay's proof chain: the destroy message and the
\* proofs the timeline may return for it.
DestroyMessage == "destroy"
ProofMessages == {"auth1", "auth2"}
ChainMessages == {DestroyMessage} \cup ProofMessages

VARIABLES
    \* ---- tracker ----
    communities,      \* TrackerDispersy._communities: cid -> [cls, strikes]
    classification,   \* database table community: cid -> classification or "none"
    candidate_active, \* candidate -> the overlays it is active for at this moment
    batch_cache,      \* overlays (loaded objects) that own a meta in Dispersy._batch_cache
    storage,          \* persistent-storage.data: the sequence of its lines
    silent,           \* TrackerDispersy._silent
    printed,          \* the lines the last operation printed to stdout
    event,            \* the last operation and how it ended: [op, result]
    \* ---- history of the tracker, for the properties ----
    destroyed,        \* CIDs for which a dispersy-destroy-community was received
    no_candidate_ticks, \* per loaded overlay: most recent consecutive ticks without active candidate
    \* ---- pruning ----
    pruning,          \* the Pruning meta of the message: [kind, inactive_threshold, prune_threshold]
    community_global_time,    \* self._distribution.community.global_time
    distribution_global_time, \* self._distribution.global_time, 0 while there is no message
    pruning_state,    \* what the last get_state() returned or raised, "none" before
    \* ---- text metas of DebugCommunity ----
    text_timeline,    \* Timeline: the set of [global_time, member, permission] events
    text_global_time, \* Community.global_time
    text_sync,        \* messages in the sync table
    text_handled,     \* messages passed to on_text
    text_delayed,     \* messages waiting for a proof (DelayMessageByProof)
    text_allowed,     \* history: messages for which timeline.check allowed at admission
    \* ---- sequence-text of DebugCommunity ----
    current_sequence_number, \* FullSyncDistribution._current_sequence_number of sequence-text
    seq_sync,         \* sync rows of sequence-text: [member, sequence_number]
    seq_buffer,       \* sequence numbers of the other member's messages waiting for a gap to close
    seq_handled,      \* sequence numbers of the other member's messages, in the order on_text got them
    seq_setup_count,  \* history: what setup counted in sync when it ran last
    seq_issued,       \* history: what claim_sequence_number returned since setup ran last
    seq_all_issued,   \* history: every sequence number my_member's messages carry
    seq_delivered,    \* history: the sequence numbers delivered by the other member, in order
    seq_expired,      \* history: whether a buffered message was dropped
    \* ---- LastSync metas of DebugCommunity ----
    last_sync,        \* sync rows of the LastSync metas: [meta, member, global_time]
    last_inserted,    \* history: every message that was inserted, as such a row
    \* ---- dynamic-resolution-text of DebugCommunity ----
    dyn_policies,     \* Timeline: the dispersy-dynamic-settings events [global_time, policy]
    dyn_sync,         \* dynamic-resolution-text messages in the sync table
    dyn_delayed,      \* dynamic-resolution-text messages waiting for a proof
    \* ---- double-signed-text of DebugCommunity: member A asks member B ----
    dbl_requests,     \* A's signature requests, in order: [text, state]
    dbl_net_request,  \* requests in flight to B (indices into dbl_requests)
    dbl_net_response, \* countersigned messages in flight to A
    dbl_seen,         \* history: requests for which B ran allow_signature_func
    dbl_signed,       \* history: requests B countersigned
    dbl_admitted,     \* history: requests whose twice-signed message A admitted
    \* ---- the clock of a DebugCommunity overlay and the messages it creates ----
    clk_global_time,  \* Community.global_time
    clk_created,      \* history: the messages the create_* operations built, in order: [meta, global_time]
    \* ---- the callback engine under the tests of test_unittest.py ----
    cb_test,          \* the test method that runs: [strict, submit, exception, yields]
    cb_phase,         \* "test", "tearDown" or "finished"
    cb_strict,        \* DispersyTestFunc._enable_strict
    cb_dispersy,      \* whether DispersyTestFunc._dispersy is set
    cb_stop_result,   \* DispersyTestFunc._dispersy_stop_result
    cb_engine,        \* the engine: "running", "stopping" (inside Dispersy.stop) or "stopped"
    cb_now,           \* the time, in tenths of a second
    cb_body,          \* the test method, run through callback.call: [pc, wake]
    cb_task,          \* the task the test method submits: [pc, yields_left, wake]
    cb_caller,        \* what callback.call gave the test thread: [status, exception]
    cb_raiser,        \* while the hook is inside Dispersy.stop: the task that raised
    cb_pending,       \* ... and its exception
    cb_stop_from,     \* who called Dispersy.stop: "none", "hook" or "tearDown"
    cb_stop_deadline, \* when the wait of Dispersy.stop times out
    cb_hook,          \* history: the calls of the exception hook: [exception, fatal]
    cb_stop_returned, \* history: what Dispersy.stop returned: [result, elapsed]
    cb_past_yield,    \* history: the test method ran the statement after its yield
    \* ---- the order in which the callback engine runs ready tasks ----
    sch_ready,        \* the priorities of the tasks that are ready to run, in order of registration
    sch_registered,   \* how many tasks were registered
    sch_ran,          \* history: the priorities of the tasks that ran, in order
    sch_passed,       \* history: [ran, waiting]: a task of priority ran was run while one of priority waiting was ready
    \* ---- a batch of introduction requests going through the tracker ----
    intro_silent,     \* the tracker was started with --silent
    intro_batch,      \* what the base check yielded for the batch, in order
    intro_checked,    \* what TrackerDispersy.check_introduction_request yielded, in order
    intro_handled,    \* the messages given to on_introduction_request, in order
    intro_printed,    \* the lines on_introduction_request printed
    \* ---- doc/tutorial-part2.py: the chat overlay ----
    chat_rights,      \* the permissions the timeline allows my_member for the text meta
    chat_global_time, \* the clock of the overlay
    chat_sync,        \* the text messages in the store
    chat_forwarded,   \* the messages that were forwarded
    chat_handled,     \* the text messages given to on_text
    chat_granted,     \* the authorize and revoke requests on_beg_permission made
    chat_event,       \* the last operation and what it yielded
    \* ---- distribution.py: constructing FullSync message implementations ----
    impl_existing,    \* the FullSync implementations that were constructed
    impl_event,       \* the last call of the constructor and how it ended
    \* ---- the introduction requests the tracker makes ----
    walk_created,     \* the introduction requests that were created, in order
    walk_sent,        \* the introduction requests that were sent, in order
    walk_event,       \* the last call of create_introduction_request and what it returned
    \* ---- TrackerCommunity.dispersy_yield_introduce_candidates ----
    rr_candidates,    \* the walked and stumbled candidates of the overlay, in the order of the iterator
    rr_index,         \* the position of _walked_stumbled_candidates in rr_candidates
    rr_candidate,     \* the candidate parameter of the invocation: the candidate not to yield
    rr_prev_result,   \* prev_result of the invocation
    rr_results,       \* history: what the iterator returned during the invocation
    rr_yields,        \* history: what the invocation yielded, in order
    \* ---- the persistent storage file over cleanups and restarts ----
    st_snap,          \* the proofs, authors and identities of the overlay that is destroyed
    st_exists,        \* the storage file exists
    st_file,          \* the lines of the storage file
    st_killed,        \* the overlay is hard-killed in this run of the tracker
    st_restarts,      \* how many times the tracker was restarted
    st_last_written,  \* history: the lines the last dispersy_cleanup_community call wrote
    st_packets,       \* history: the packets all dispersy_cleanup_community calls wrote, in order
    st_loaded,        \* history: the packets the last _load_persistent_storage read, in file order
    st_fed,           \* history: the packets the last _load_persistent_storage gave the engine, in order
    st_event,         \* the last operation and how it ended
    \* ---- the conversion table of a tracker overlay ----
    conv_conversions, \* _conversions without the key None: prefix -> conversion
    conv_default,     \* _conversions[None], the default conversion
    conv_created,     \* history: the conversions get_conversion created
    conv_event        \* the last get_conversion call and how it ended

trackerVars == <<communities, classification, candidate_active, batch_cache, storage,
                 silent, printed, event, destroyed, no_candidate_ticks>>

pruningVars == <<pruning, community_global_time, distribution_global_time, pruning_state>>

textVars == <<text_timeline, text_global_time, text_sync, text_handled, text_delayed,
              text_allowed>>

seqVars == <<current_sequence_number, seq_sync, seq_buffer, seq_handled, seq_setup_count,
             seq_issued, seq_all_issued, seq_delivered, seq_expired>>

lastVars == <<last_sync, last_inserted>>

dynVars == <<dyn_policies, dyn_sync, dyn_delayed>>

dblVars == <<dbl_requests, dbl_net_request, dbl_net_response, dbl_seen,
             dbl_signed, dbl_admitted>>

clkVars == <<clk_global_time, clk_created>>

cbVars == <<cb_test, cb_phase, cb_strict, cb_dispersy, cb_stop_result, cb_engine, cb_now,
            cb_body, cb_task, cb_caller, cb_raiser, cb_pending, cb_stop_from,
            cb_stop_deadline, cb_hook, cb_stop_returned, cb_past_yield>>

schVars == <<sch_ready, sch_registered, sch_ran, sch_passed>>

introVars == <<intro_silent, intro_batch, intro_checked, intro_handled, intro_printed>>

chatVars == <<chat_rights, chat_global_time, chat_sync, chat_forwarded, chat_handled, chat_granted, chat_event>>

implVars == <<impl_existing, impl_event>>

walkVars == <<walk_created, walk_sent, walk_event>>

rrVars == <<rr_candidates, rr_index, rr_candidate, rr_prev_result, rr_results, rr_yields>>

stVars == <<st_snap, st_exists, st_file, st_killed, st_restarts, st_last_written, st_packets, st_loaded, st_fed, st_event>>

convVars == <<conv_conversions, conv_default, conv_created, conv_event>>

vars == <<trackerVars, pruningVars, textVars, seqVars, lastVars, dynVars, dblVars, clkVars, cbVars, schVars, introVars, chatVars, implVars, walkVars, rrVars, stVars, convVars>>

\* what the actions of one specification leave alone
nonTrackerVars == <<pruningVars, textVars, seqVars, lastVars, dynVars, dblVars, clkVars, cbVars, schVars, introVars, chatVars, implVars, walkVars, rrVars, stVars, convVars>>

nonPruningVars == <<trackerVars, textVars, seqVars, lastVars, dynVars, dblVars, clkVars, cbVars, schVars, introVars, chatVars, implVars, walkVars, rrVars, stVars, convVars>>

nonTextVars == <<trackerVars, pruningVars, seqVars, lastVars, dynVars, dblVars, clkVars, cbVars, schVars, introVars, chatVars, implVars, walkVars, rrVars, stVars, convVars>>

nonSeqVars == <<trackerVars, pruningVars, textVars, lastVars, dynVars, dblVars, clkVars, cbVars, schVars, introVars, chatVars, implVars, walkVars, rrVars, stVars, convVars>>

nonLastVars == <<trackerVars, pruningVars, textVars, seqVars, dynVars, dblVars, clkVars, cbVars, schVars, introVars, chatVars, implVars, walkVars, rrVars, stVars, convVars>>

nonDynVars == <<trackerVars, pruningVars, textVars, seqVars, lastVars, dblVars, clkVars, cbVars, schVars, introVars, chatVars, implVars, walkVars, rrVars, stVars, convVars>>

nonDblVars == <<trackerVars, pruningVars, textVars, seqVars, lastVars, dynVars, clkVars, cbVars, schVars, introVars, chatVars, implVars, walkVars, rrVars, stVars, convVars>>

nonClkVars == <<trackerVars, pruningVars, textVars, seqVars, lastVars, dynVars, dblVars, cbVars, schVars, introVars, chatVars, implVars, walkVars, rrVars, stVars, convVars>>

nonCbVars == <<trackerVars, pruningVars, textVars, seqVars, lastVars, dynVars, dblVars, clkVars, schVars, introVars, chatVars, implVars, walkVars, rrVars, stVars, convVars>>

nonSchVars == <<trackerVars, pruningVars, textVars, seqVars, lastVars, dynVars, dblVars, clkVars, cbVars, introVars, chatVars, implVars, walkVars, rrVars, stVars, convVars>>

nonIntroVars == <<trackerVars, pruningVars, textVars, seqVars, lastVars, dynVars, dblVars, clkVars, cbVars, schVars, chatVars, implVars, walkVars, rrVars, stVars, convVars>>

nonChatVars == <<trackerVars, pruningVars, textVars, seqVars, lastVars, dynVars, dblVars, clkVars, cbVars, schVars, introVars, implVars, walkVars, rrVars, stVars, convVars>>

nonImplVars == <<trackerVars, pruningVars, textVars, seqVars, lastVars, dynVars, dblVars, clkVars, cbVars, schVars, introVars, chatVars, walkVars, rrVars, stVars, convVars>>

nonWalkVars == <<trackerVars, pruningVars, textVars, seqVars, lastVars, dynVars, dblVars, clkVars, cbVars, schVars, introVars, chatVars, implVars, rrVars, stVars, convVars>>

nonRrVars == <<trackerVars, pruningVars, textVars, seqVars, lastVars, dynVars, dblVars, clkVars, cbVars, schVars, introVars, chatVars, implVars, walkVars, stVars, convVars>>

nonStVars == <<trackerVars, pruningVars, textVars, seqVars, lastVars, dynVars, dblVars, clkVars, cbVars, schVars, introVars, chatVars, implVars, walkVars, rrVars, convVars>>

nonConvVars == <<trackerVars, pruningVars, textVars, seqVars, lastVars, dynVars, dblVars, clkVars, cbVars, schVars, introVars, chatVars, implVars, walkVars, rrVars, stVars>>

(***************************************************************************)
(* Packets and the lines of the persistent storage file.                   *)
(***************************************************************************)
\* A packet is a byte string; the bytes that matter here are the overlay it
\* belongs to (packet[2:22] in the source) and which message it is.
CidByte(cid) == IF cid = "X" THEN 88 ELSE 89

MessageByte(m) ==
    CASE m = DestroyMessage -> 250
      [] m = "auth1" -> 17
      [] m = "auth2" -> 18

MemberByte(member) == IF member = "master" THEN 1 ELSE 2

\* message.packet
Packet(cid, m) == <<CidByte(cid), MessageByte(m)>>

\* the dispersy-identity packet of a member, as stored in sync
IdentityPacket(cid, member) == <<CidByte(cid), 245, MemberByte(member)>>

\* member.public_key
PublicKey(member) == <<MemberByte(member)>>

\* message.name
MessageName(m) ==
    IF m = DestroyMessage THEN "dispersy-destroy-community" ELSE "dispersy-authorize"

\* str.encode("HEX"): two hexadecimal digits for every byte
encode_HEX(bytes) ==
    [i \in 1..(2 * Len(bytes)) |->
        IF i % 2 = 1 THEN bytes[(i + 1) \div 2] \div 16 ELSE bytes[i \div 2] % 16]

\* write(" ".join((name, hex, "\n"))): one line of the file
Line(name, hex) == [name |-> name, hex |-> hex]

\* write("# received dispersy-destroy-community from %s\n" % ...)
CommentLine == Line("#", <<>>)

(***************************************************************************)
(* What the timeline and the sync table hold when a destroy message is     *)
(* cleaned up: the proofs timeline.check returns for every message of the  *)
(* chain, the author of every message, and the members whose               *)
(* dispersy-identity is in sync.                                           *)
(***************************************************************************)
ChainAuthor == [m \in ChainMessages |-> IF m = "auth2" THEN "member" ELSE "master"]

NoProofs == [m \in ChainMessages |-> <<>>]

\* The snapshot of each overlay of the tracker specification: in X a proof
\* shared by two messages, with the identity of the master in sync; in Y
\* proofs that name each other, with no identity in sync.
TrackerSnapshot(cid) ==
    IF cid = "X"
    THEN [proofs |-> [NoProofs EXCEPT ![DestroyMessage] = <<"auth1", "auth2">>,
                                      !["auth2"] = <<"auth1">>],
          author |-> ChainAuthor, identities |-> {"master"}]
    ELSE [proofs |-> [NoProofs EXCEPT ![DestroyMessage] = <<"auth2">>,
                                      !["auth2"] = <<"auth1">>, !["auth1"] = <<"auth2">>],
          author |-> ChainAuthor, identities |-> {}]

(***************************************************************************)
(* TrackerCommunity / TrackerHardKilledCommunity                           *)
(***************************************************************************)
\* candidate.is_active(community, now)
is_active(candidate, cid) == cid \in candidate_active[candidate]

\* TrackerHardKilledCommunity.update_strikes
TrackerHardKilledCommunity_update_strikes(cid) == communities[cid].strikes + 1

TrackerCommunity_update_strikes_NoReset(cid) == communities[cid].strikes + 1

\* TrackerCommunity.update_strikes
TrackerCommunity_update_strikes(cid) ==
    IF \E candidate \in WalkCandidates : is_active(candidate, cid)
    THEN 0
    ELSE communities[cid].strikes + 1

\* community.update_strikes(now), dispatched on the class of the overlay
update_strikes(cid) ==
    IF communities[cid].cls = TrackerCommunity
    THEN TrackerCommunity_update_strikes(cid)
    ELSE TrackerHardKilledCommunity_update_strikes(cid)

\* stdout lines
PrintLine(tag, cid, cand) == [tag |-> tag, cid |-> cid, cand |-> cand]

TrackerHardKilledCommunity_dispersy_on_introduction_request_AndReqIn(cid, cand) ==
    <<PrintLine("DESTROY_OUT", cid, cand), PrintLine("REQ_IN2", cid, cand)>>

\* TrackerHardKilledCommunity.dispersy_on_introduction_request
TrackerHardKilledCommunity_dispersy_on_introduction_request(cid, cand) ==
    <<PrintLine("DESTROY_OUT", cid, cand)>>

\* TrackerDispersy.on_introduction_request
TrackerDispersy_on_introduction_request(cid, cand) ==
    IF ~silent THEN <<PrintLine("REQ_IN2", cid, cand)>> ELSE <<>>

cleanup_traverse_DestroyOnly(cid, snap, messages, stored, written) ==
    <<Line(MessageName(DestroyMessage), encode_HEX(Packet(cid, DestroyMessage)))>>

\* The while loop of dispersy_cleanup_community: messages is the work list
\* (popped from its end), stored the set of packets written so far.
RECURSIVE cleanup_traverse(_, _, _, _, _)
cleanup_traverse(cid, snap, messages, stored, written) ==
    IF messages = <<>> THEN written
    ELSE
      LET message == messages[Len(messages)]
          rest == SubSeq(messages, 1, Len(messages) - 1)
          packet == Packet(cid, message)
          member == snap.author[message]
      IN IF packet \in stored
         THEN cleanup_traverse(cid, snap, rest, stored, written)
         ELSE
           LET stored2 == stored \cup {packet}
               w1 == Append(written, Line(MessageName(message), encode_HEX(packet)))
               w2 == IF PublicKey(member) \notin stored2 /\ member \in snap.identities
                     THEN Append(w1, Line("dispersy-identity",
                                          encode_HEX(IdentityPacket(cid, member))))
                     ELSE w1
           IN cleanup_traverse(cid, snap, rest \o snap.proofs[message], stored2, w2)

dispersy_cleanup_community_ByPayload(cid, cand, payload, snap) ==
    [ printed |-> <<PrintLine("DESTROY_IN", cid, cand)>>,
      written |-> <<CommentLine>> \o
                  cleanup_traverse(cid, snap, <<DestroyMessage>>, {}, <<>>),
      classification |-> IF payload = "hard-kill" THEN TrackerHardKilledCommunity
                         ELSE TrackerCommunity ]

\* TrackerCommunity.dispersy_cleanup_community: what it prints, what it
\* appends to the storage file, and the classification it returns.
dispersy_cleanup_community(cid, cand, payload, snap) ==
    [ printed |-> <<PrintLine("DESTROY_IN", cid, cand)>>,
      written |-> <<CommentLine>> \o
                  cleanup_traverse(cid, snap, <<DestroyMessage>>, {}, <<>>),
      classification |-> TrackerHardKilledCommunity ]

(***************************************************************************)
(* TrackerDispersy                                                         *)
(***************************************************************************)
\* A fresh overlay object of class cls (strikes 0), put in _communities.
attach_community(comms, cid, cls) ==
    [c \in DOMAIN comms \cup {cid} |->
        IF c = cid THEN [cls |-> cls, strikes |-> 0] ELSE comms[c]]

\* community.unload_community(): the overlays of the set leave _communities.
unload_community(comms, cids) == [c \in DOMAIN comms \ cids |-> comms[c]]

\* Dispersy.get_community(cid, load=True, auto_load=True): the loaded
\* overlay, else the overlay loaded by its database classification, else
\* KeyError.
Dispersy_get_community(cid) ==
    IF cid \in DOMAIN communities
    THEN [raised |-> FALSE, comms |-> communities]
    ELSE IF classification[cid] \in AutoLoadCommunities
         THEN [raised |-> FALSE,
               comms |-> attach_community(communities, cid, classification[cid])]
         ELSE [raised |-> TRUE, comms |-> communities]

TrackerDispersy_get_community_NoReload(cid) ==
    IF cid \in DOMAIN communities
    THEN [raised |-> FALSE, comms |-> communities, classification |-> classification]
    ELSE [raised |-> FALSE,
          comms |-> attach_community(communities, cid, TrackerCommunity),
          classification |-> [classification EXCEPT ![cid] = TrackerCommunity]]

TrackerDispersy_get_community_NoJoin(cid) ==
    LET r == Dispersy_get_community(cid)
    IN [raised |-> r.raised, comms |-> r.comms, classification |-> classification]

\* TrackerDispersy.get_community
TrackerDispersy_get_community(cid) ==
    LET r == Dispersy_get_community(cid)
    IN IF ~r.raised
       THEN [raised |-> FALSE, comms |-> r.comms, classification |-> classification]
       ELSE [raised |-> FALSE,
             comms |-> attach_community(communities, cid, TrackerCommunity),
             classification |-> [classification EXCEPT ![cid] = TrackerCommunity]]

check_introduction_request_PassAll(item, cand) == item

\* TrackerDispersy.check_introduction_request: item is what the base check
\* yields for the message.
check_introduction_request(item, cand) ==
    IF item = "message" /\ cand \in BootstrapCandidates THEN "DropMessage" ELSE item

unload_is_active_IgnoreCache(cid) == update_strikes(cid) < StrikeLimit

\* _unload_communities.is_active(community, now)
unload_is_active(cid) ==
    IF update_strikes(cid) < StrikeLimit
    THEN TRUE
    ELSE cid \in batch_cache

(***************************************************************************)
(* Initial state of the tracker: TrackerDispersy.__init__ with an in-memory*)
(* database, no overlay loaded and no persistent storage file.             *)
(***************************************************************************)
\* result: the exception the operation ended with, what the check of the
\* message yielded, or ""
Event(op, result) == [op |-> op, result |-> result]

ZeroTicks == [cid \in CIDs |-> 0]

TrackerInit ==
    /\ communities = [cid \in {} |-> [cls |-> TrackerCommunity, strikes |-> 0]]
    /\ classification = [cid \in CIDs |-> "none"]
    /\ candidate_active = [candidate \in WalkCandidates |-> {}]
    /\ batch_cache = {}
    /\ storage = <<>>
    /\ silent \in BOOLEAN
    /\ printed = <<>>
    /\ event = Event("start", "")
    /\ destroyed = {}
    /\ no_candidate_ticks = ZeroTicks

\* The tick counter of an overlay object starts at 0 when the object is
\* created (loaded, joined or reclassified).
ResetTicks(ticks, fresh) == [cid \in CIDs |-> IF cid \in fresh THEN 0 ELSE ticks[cid]]

(***************************************************************************)
(* One iteration of TrackerDispersy._unload_communities (every 180 s).     *)
(***************************************************************************)
UnloadCommunities ==
    /\ \A cid \in DOMAIN communities : communities[cid].strikes < MaxStrikes
    /\ LET inactive == {cid \in DOMAIN communities : ~ unload_is_active(cid)}
           struck == [cid \in DOMAIN communities |->
                         [communities[cid] EXCEPT !.strikes = update_strikes(cid)]]
           idle(cid) == ~ \E candidate \in WalkCandidates : is_active(candidate, cid)
       IN /\ communities' = unload_community(struck, inactive)
          /\ no_candidate_ticks' =
                [cid \in CIDs |->
                    IF cid \notin DOMAIN communities \/ cid \in inactive \/ ~ idle(cid)
                    THEN 0 ELSE no_candidate_ticks[cid] + 1]
    /\ printed' = <<>>
    /\ event' = Event("tick", "")
    /\ UNCHANGED <<classification, candidate_active, batch_cache, storage, silent,
                   destroyed>>
    /\ UNCHANGED nonTrackerVars

(***************************************************************************)
(* TrackerDispersy.get_community(cid), as called for every incoming packet *)
(* by _convert_packets_into_batch.                                         *)
(***************************************************************************)
GetCommunity(cid) ==
    LET r == TrackerDispersy_get_community(cid)
    IN /\ communities' = r.comms
       /\ classification' = r.classification
       /\ printed' = <<>>
       /\ event' = Event("get_community", IF r.raised THEN "KeyError" ELSE "")
       /\ UNCHANGED <<candidate_active, batch_cache, storage, silent, destroyed,
                      no_candidate_ticks>>
       /\ UNCHANGED nonTrackerVars

(***************************************************************************)
(* An incoming dispersy-introduction-request for overlay cid from cand:    *)
(* _convert_packets_into_batch (auto-load), check_introduction_request,    *)
(* then the overlay's handler.  base is what the base check yields.        *)
(***************************************************************************)
IntroductionRequest(cand, cid, base) ==
    LET r == TrackerDispersy_get_community(cid)
        item == check_introduction_request(base, cand)
        cls == r.comms[cid].cls
    IN /\ ~ r.raised
       /\ communities' = r.comms
       /\ classification' = r.classification
       /\ printed' =
            IF item # "message" THEN <<>>
            ELSE IF cls = TrackerCommunity
                 THEN TrackerDispersy_on_introduction_request(cid, cand)
                 ELSE TrackerHardKilledCommunity_dispersy_on_introduction_request(cid, cand)
       /\ candidate_active' =
            IF item = "message" /\ cand \in WalkCandidates
            THEN [candidate_active EXCEPT ![cand] = @ \cup {cid}]
            ELSE candidate_active
       /\ event' = Event("introduction-request", item)
       /\ UNCHANGED <<batch_cache, storage, silent, destroyed, no_candidate_ticks>>
       /\ UNCHANGED nonTrackerVars

(***************************************************************************)
(* An incoming dispersy-destroy-community for overlay cid that passed the  *)
(* timeline check.  A live overlay cleans up and is reclassified to what   *)
(* dispersy_cleanup_community returns; a hard-killed overlay has no such   *)
(* meta message and drops the packet.                                      *)
(***************************************************************************)
DestroyCommunity(cand, cid, payload, snap) ==
    LET r == TrackerDispersy_get_community(cid)
        cls == r.comms[cid].cls
        c == dispersy_cleanup_community(cid, cand, payload, snap)
    IN /\ ~ r.raised
       /\ IF cls = TrackerCommunity
          THEN /\ printed' = c.printed
               /\ storage' = storage \o c.written
               /\ communities' = attach_community(r.comms, cid, c.classification)
               /\ classification' = [r.classification EXCEPT ![cid] = c.classification]
               /\ batch_cache' = batch_cache \ {cid}
               /\ destroyed' = destroyed \cup {cid}
               /\ no_candidate_ticks' = ResetTicks(no_candidate_ticks, {cid})
          ELSE /\ printed' = <<>>
               /\ communities' = r.comms
               /\ classification' = r.classification
               /\ UNCHANGED <<storage, batch_cache, destroyed, no_candidate_ticks>>
       /\ event' = Event("destroy-community",
                         IF cls = TrackerCommunity THEN "message" ELSE "DropPacket")
       /\ UNCHANGED <<candidate_active, silent>>
       /\ UNCHANGED nonTrackerVars

(***************************************************************************)
(* The environment: messages waiting in the batch cache, candidates        *)
(* timing out.                                                             *)
(***************************************************************************)
\* a message of a loaded overlay is put in Dispersy._batch_cache
BatchArrive(cid) ==
    /\ cid \in DOMAIN communities
    /\ cid \notin batch_cache
    /\ batch_cache' = batch_cache \cup {cid}
    /\ printed' = <<>>
    /\ event' = Event("environment", "")
    /\ UNCHANGED <<communities, classification, candidate_active, storage, silent,
                   destroyed, no_candidate_ticks>>
    /\ UNCHANGED nonTrackerVars

\* the batch window of the cached meta ends: the batch is processed
BatchProcess(cid) ==
    /\ cid \in batch_cache
    /\ batch_cache' = batch_cache \ {cid}
    /\ printed' = <<>>
    /\ event' = Event("environment", "")
    /\ UNCHANGED <<communities, classification, candidate_active, storage, silent,
                   destroyed, no_candidate_ticks>>
    /\ UNCHANGED nonTrackerVars

\* time passes: a candidate is no longer active for an overlay
CandidateTimeout(cand, cid) ==
    /\ cid \in candidate_active[cand]
    /\ candidate_active' = [candidate_active EXCEPT ![cand] = @ \ {cid}]
    /\ printed' = <<>>
    /\ event' = Event("environment", "")
    /\ UNCHANGED <<communities, classification, batch_cache, storage, silent,
                   destroyed, no_candidate_ticks>>
    /\ UNCHANGED nonTrackerVars

(***************************************************************************)
(* distribution.py: Pruning, NoPruning, GlobalTimePruning                  *)
(***************************************************************************)
NoPruning == [kind |-> "NoPruning", inactive_threshold |-> 0, prune_threshold |-> 0]

\* GlobalTimePruning.__init__(inactive, pruned)
GlobalTimePruning(inactive, pruned) ==
    [kind |-> "GlobalTimePruning", inactive_threshold |-> inactive, prune_threshold |-> pruned]

\* The pruning policies a meta message can be built with: the constructor
\* asserts 0 < inactive < pruned.
Prunings ==
    {NoPruning} \cup
    {GlobalTimePruning(t[1], t[2]) :
        t \in {u \in (1..MaxThreshold) \X (1..MaxThreshold) : 0 < u[1] /\ u[1] < u[2]}}

\* NoPruning.Implementation
NoPruning_is_active(p, community_time, message_time) == TRUE

NoPruning_is_inactive(p, community_time, message_time) == FALSE

NoPruning_is_pruned(p, community_time, message_time) == FALSE

\* GlobalTimePruning.Implementation.is_active
GlobalTimePruning_is_active(p, community_time, message_time) ==
    community_time - message_time < p.inactive_threshold

GlobalTimePruning_is_inactive_Exclusive(p, community_time, message_time) ==
    /\ p.inactive_threshold < community_time - message_time
    /\ community_time - message_time < p.prune_threshold

\* GlobalTimePruning.Implementation.is_inactive
GlobalTimePruning_is_inactive(p, community_time, message_time) ==
    /\ p.inactive_threshold <= community_time - message_time
    /\ community_time - message_time < p.prune_threshold

\* GlobalTimePruning.Implementation.is_pruned
GlobalTimePruning_is_pruned(p, community_time, message_time) ==
    p.prune_threshold <= community_time - message_time

\* the methods of the implementation, dispatched on the class of the policy
Pruning_is_active(p, community_time, message_time) ==
    IF p.kind = "NoPruning"
    THEN NoPruning_is_active(p, community_time, message_time)
    ELSE GlobalTimePruning_is_active(p, community_time, message_time)

Pruning_is_inactive(p, community_time, message_time) ==
    IF p.kind = "NoPruning"
    THEN NoPruning_is_inactive(p, community_time, message_time)
    ELSE GlobalTimePruning_is_inactive(p, community_time, message_time)

Pruning_is_pruned(p, community_time, message_time) ==
    IF p.kind = "NoPruning"
    THEN NoPruning_is_pruned(p, community_time, message_time)
    ELSE GlobalTimePruning_is_pruned(p, community_time, message_time)

\* Pruning.Implementation.get_state: the state, or the exception it raises
get_state(p, community_time, message_time) ==
    IF Pruning_is_active(p, community_time, message_time) THEN "active"
    ELSE IF Pruning_is_inactive(p, community_time, message_time) THEN "inactive"
    ELSE IF Pruning_is_pruned(p, community_time, message_time) THEN "pruned"
    ELSE "RuntimeError"

Max(a, b) == IF a > b THEN a ELSE b

\* The pruning specification starts with an overlay whose clock is 1, a meta
\* with any pruning policy and no message yet.
PruningInit ==
    /\ pruning \in Prunings
    /\ community_global_time = 1
    /\ distribution_global_time = 0
    /\ pruning_state = "none"

\* The pruning variables while another specification runs.
PruningIdle ==
    /\ pruning = NoPruning
    /\ community_global_time = 1
    /\ distribution_global_time = 0
    /\ pruning_state = "none"

\* The overlay creates the message: its global time is claimed from the
\* overlay's clock (claim_global_time returns the current time, then
\* increments).
PruningCreateMessage ==
    /\ distribution_global_time = 0
    /\ community_global_time < MaxGlobalTime
    /\ distribution_global_time' = community_global_time
    /\ community_global_time' = community_global_time + 1
    /\ pruning_state' = "none"
    /\ UNCHANGED <<pruning, nonPruningVars>>

\* The overlay receives the message from another peer at global time t; its
\* clock never runs behind a message it holds.
PruningReceiveMessage(t) ==
    /\ distribution_global_time = 0
    /\ distribution_global_time' = t
    /\ community_global_time' = Max(community_global_time, t)
    /\ pruning_state' = "none"
    /\ UNCHANGED <<pruning, nonPruningVars>>

\* a clock that can be set back
PruningAdvanceGlobalTime_Back(t) ==
    /\ t # community_global_time
    /\ community_global_time' = t
    /\ pruning_state' = "none"
    /\ UNCHANGED <<pruning, distribution_global_time, nonPruningVars>>

\* The overlay's clock moves on to t (other messages are created or received).
PruningAdvanceGlobalTime(t) ==
    /\ t > community_global_time
    /\ community_global_time' = t
    /\ pruning_state' = "none"
    /\ UNCHANGED <<pruning, distribution_global_time, nonPruningVars>>

\* message.distribution.pruning.get_state()
PruningGetState ==
    /\ distribution_global_time > 0
    /\ pruning_state' = get_state(pruning, community_global_time, distribution_global_time)
    /\ UNCHANGED <<pruning, community_global_time, distribution_global_time,
                   nonPruningVars>>

(***************************************************************************)
(* debugcommunity.py: the text metas of DebugCommunity, their timeline     *)
(* check and the store_update_forward / inbound pipelines they go through. *)
(***************************************************************************)
\* my_member of the overlay and another member
TextMembers == {"me", "other"}

\* initiate_meta_messages: full-sync-text has PublicResolution,
\* protected-full-sync-text has LinearResolution
TextMetas == {"full-sync-text", "protected-full-sync-text"}

Resolution(meta) ==
    IF meta = "protected-full-sync-text" THEN "LinearResolution" ELSE "PublicResolution"

\* meta.impl(authentication=(member,), distribution=(global_time,), payload=(text,))
TextMessage(meta, member, global_time) ==
    [meta |-> meta, member |-> member, global_time |-> global_time]

TimelineEvent(global_time, member, permission) ==
    [global_time |-> global_time, member |-> member, permission |-> permission]

\* Timeline.check(message): under PublicResolution every member is allowed;
\* under LinearResolution the member is allowed when the most recent
\* authorize / revoke event for it at or before the message's global time is
\* an authorize.
timeline_check(timeline, message) ==
    IF Resolution(message.meta) = "PublicResolution" THEN TRUE
    ELSE
      LET events == {e \in timeline : /\ e.member = message.member
                                      /\ e.global_time <= message.global_time}
      IN \E e \in events :
            /\ e.permission = "authorize"
            /\ \A f \in events : f.global_time <= e.global_time

\* DebugCommunity.check_text for one message: what it yields
check_text(timeline, message) ==
    IF timeline_check(timeline, message) THEN "message" ELSE "DelayMessageByProof"

\* Dispersy.store_update_forward([message], store, update, forward): the
\* message is stored, then handed to the handler of its meta (on_text).
store_update_forward(message, store, update) ==
    [ sync |-> IF store THEN text_sync \cup {message} ELSE text_sync,
      handled |-> IF update THEN text_handled \cup {message} ELSE text_handled ]

\* how many messages the overlay holds
TextMessageCount == Cardinality(text_sync \cup text_handled \cup text_delayed)

\* The text specification starts with an overlay my_member created (the
\* master authorized it at global time 1) or joined (an empty timeline).
TextInit ==
    /\ text_timeline \in {{}, {TimelineEvent(1, "me", "authorize")}}
    /\ text_global_time = 2
    /\ text_sync = {}
    /\ text_handled = {}
    /\ text_delayed = {}
    /\ text_allowed = {}

\* The text variables while another specification runs.
TextIdle ==
    /\ text_timeline = {}
    /\ text_global_time = 2
    /\ text_sync = {}
    /\ text_handled = {}
    /\ text_delayed = {}
    /\ text_allowed = {}

\* The effect of store_update_forward on the overlay, and whether
\* timeline.check allowed the message it admits.
TextStoreUpdateForward(message, store, update) ==
    LET r == store_update_forward(message, store, update)
    IN /\ text_sync' = r.sync
       /\ text_handled' = r.handled
       /\ text_allowed' = IF (store \/ update) /\ timeline_check(text_timeline, message)
                          THEN text_allowed \cup {message} ELSE text_allowed

\* DebugCommunity.create_full_sync_text
CreateFullSyncText(store, update) ==
    /\ text_global_time < MaxGlobalTime
    /\ TextMessageCount < MaxMessages
    /\ text_global_time' = text_global_time + 1
    /\ TextStoreUpdateForward(TextMessage("full-sync-text", "me", text_global_time),
                              store, update)
    /\ UNCHANGED <<text_timeline, text_delayed, nonTextVars>>

\* DebugCommunity.create_protected_full_sync_text
CreateProtectedFullSyncText(store, update) ==
    /\ text_global_time < MaxGlobalTime
    /\ TextMessageCount < MaxMessages
    /\ text_global_time' = text_global_time + 1
    /\ TextStoreUpdateForward(TextMessage("protected-full-sync-text", "me", text_global_time),
                              store, update)
    /\ UNCHANGED <<text_timeline, text_delayed, nonTextVars>>

\* The outcome of the inbound pipeline for a message: check_text, then either
\* store and on_text, or the delay buffer.
TextInbound(message) ==
    IF check_text(text_timeline, message) = "message"
    THEN /\ text_sync' = text_sync \cup {message}
         /\ text_handled' = text_handled \cup {message}
         /\ text_delayed' = text_delayed \ {message}
         /\ text_allowed' = text_allowed \cup {message}
         /\ text_global_time' = Max(text_global_time, message.global_time)
    ELSE /\ text_delayed' = text_delayed \cup {message}
         /\ UNCHANGED <<text_sync, text_handled, text_allowed, text_global_time>>

\* A text message of another peer arrives.
ReceiveText(meta, member, global_time) ==
    LET message == TextMessage(meta, member, global_time)
    IN /\ message \notin text_sync \cup text_delayed
       /\ TextMessageCount < MaxMessages
       /\ TextInbound(message)
       /\ UNCHANGED <<text_timeline, nonTextVars>>

\* The proof a delayed message waits for has arrived: the message goes
\* through the check again.
ProofArrives(message) ==
    /\ message \in text_delayed
    /\ check_text(text_timeline, message) = "message"
    /\ TextInbound(message)
    /\ UNCHANGED <<text_timeline, nonTextVars>>

\* The delay of a message expires: it is dropped.
DelayTimeout(message) ==
    /\ message \in text_delayed
    /\ text_delayed' = text_delayed \ {message}
    /\ UNCHANGED <<text_timeline, text_global_time, text_sync, text_handled,
                   text_allowed, nonTextVars>>

\* A dispersy-authorize or dispersy-revoke of the master for the permit
\* permission of protected-full-sync-text is stored in the timeline.
TimelineUpdate(member, permission) ==
    /\ Cardinality(text_timeline) < MaxEvents
    /\ text_global_time < MaxGlobalTime
    /\ text_timeline' = text_timeline \cup
                           {TimelineEvent(text_global_time, member, permission)}
    /\ text_global_time' = text_global_time + 1
    /\ UNCHANGED <<text_sync, text_handled, text_delayed, text_allowed,
                   nonTextVars>>

(***************************************************************************)
(* distribution.py: FullSyncDistribution with sequence numbers, and the    *)
(* sequence-text meta of DebugCommunity.                                   *)
(***************************************************************************)
enable_sequence_number_Disabled(meta) == FALSE

\* DebugCommunity.initiate_meta_messages: FullSyncDistribution(
\* enable_sequence_number=...) of every FullSync text meta
enable_sequence_number(meta) == meta = "sequence-text"

\* a row of the sync table for a sequence-text message
SeqRow(member, sequence_number) == [member |-> member, sequence_number |-> sequence_number]

\* the sequence numbers the sync table holds for a member
SeqNumbers(sync, member) == {row.sequence_number : row \in {r \in sync : r.member = member}}

\* FullSyncDistribution.setup: SELECT COUNT(1) FROM sync WHERE member =
\* my_member AND meta_message = sequence-text
FullSyncDistribution_setup(sync) == Cardinality({row \in sync : row.member = "me"})

claim_sequence_number_PostIncrement(current) ==
    [current |-> current + 1, result |-> current]

\* FullSyncDistribution.claim_sequence_number: the new value of
\* _current_sequence_number and what is returned
claim_sequence_number(current) ==
    [current |-> current + 1, result |-> current + 1]

\* The overlay is loaded with the messages of my_member numbered 1..n in
\* sync (none of the other member); setup has run.
SeqInit ==
    /\ \E n \in 0..MaxStoredAtStart :
          /\ seq_sync = {SeqRow("me", i) : i \in 1..n}
          /\ current_sequence_number = n
          /\ seq_setup_count = n
          /\ seq_all_issued = 1..n
    /\ seq_buffer = {}
    /\ seq_handled = <<>>
    /\ seq_issued = <<>>
    /\ seq_delivered = <<>>
    /\ seq_expired = FALSE

\* The sequence variables while another specification runs.
SeqIdle ==
    /\ seq_sync = {}
    /\ current_sequence_number = 0
    /\ seq_setup_count = 0
    /\ seq_all_issued = {}
    /\ seq_buffer = {}
    /\ seq_handled = <<>>
    /\ seq_issued = <<>>
    /\ seq_delivered = <<>>
    /\ seq_expired = FALSE

\* DebugCommunity.create_sequence_text(text, store, update, forward): the
\* message carries the claimed sequence number and goes through
\* store_update_forward.
CreateSequenceText(store) ==
    LET claimed == claim_sequence_number(current_sequence_number)
    IN /\ enable_sequence_number("sequence-text")
       /\ current_sequence_number < MaxSequence
       /\ current_sequence_number' = claimed.current
       /\ seq_sync' = IF store THEN seq_sync \cup {SeqRow("me", claimed.result)} ELSE seq_sync
       /\ seq_issued' = Append(seq_issued, claimed.result)
       /\ seq_all_issued' = seq_all_issued \cup {claimed.result}
       /\ UNCHANGED <<seq_buffer, seq_handled, seq_setup_count, seq_delivered, seq_expired,
                      nonSeqVars>>

\* The overlay is unloaded and loaded again: the meta message is created
\* anew and setup runs.
SequenceSetup ==
    /\ current_sequence_number' = FullSyncDistribution_setup(seq_sync)
    /\ seq_setup_count' = FullSyncDistribution_setup(seq_sync)
    /\ seq_issued' = <<>>
    /\ UNCHANGED <<seq_sync, seq_buffer, seq_handled, seq_all_issued, seq_delivered,
                   seq_expired, nonSeqVars>>

\* the highest sequence number in sync for the member, 0 when there is none
SeqLast(sync, member) ==
    IF SeqNumbers(sync, member) = {} THEN 0
    ELSE CHOOSE n \in SeqNumbers(sync, member) : \A m \in SeqNumbers(sync, member) : m <= n

\* The buffered sequence numbers that follow last without a gap, in order.
RECURSIVE SeqDrain(_, _)
SeqDrain(last, buffer) ==
    IF last + 1 \in buffer THEN <<last + 1>> \o SeqDrain(last + 1, buffer) ELSE <<>>

\* the elements of a sequence
SeqRange(q) == {q[i] : i \in 1..Len(q)}

\* A sequence-text message of the other member with sequence number n is
\* delivered: the inbound pipeline of a FullSync meta.
ReceiveSequenceText(n) ==
    LET last == SeqLast(seq_sync, "other")
        released == <<n>> \o SeqDrain(n, seq_buffer)
    IN /\ Len(seq_delivered) < MaxDeliveries
       /\ seq_delivered' = Append(seq_delivered, n)
       /\ IF ~ enable_sequence_number("sequence-text")
          THEN IF SeqRow("other", n) \in seq_sync
               THEN UNCHANGED <<seq_sync, seq_handled, seq_buffer>>
               ELSE /\ seq_sync' = seq_sync \cup {SeqRow("other", n)}
                    /\ seq_handled' = Append(seq_handled, n)
                    /\ UNCHANGED seq_buffer
          ELSE IF n <= last
               THEN UNCHANGED <<seq_sync, seq_handled, seq_buffer>>
               ELSE IF n = last + 1
                    THEN /\ seq_sync' = seq_sync \cup
                                          {SeqRow("other", m) : m \in SeqRange(released)}
                         /\ seq_handled' = seq_handled \o released
                         /\ seq_buffer' = seq_buffer \ SeqRange(released)
                    ELSE /\ seq_buffer' = seq_buffer \cup {n}
                         /\ UNCHANGED <<seq_sync, seq_handled>>
       /\ UNCHANGED <<current_sequence_number, seq_setup_count, seq_issued, seq_all_issued,
                      seq_expired, nonSeqVars>>

\* The delay of a buffered message expires: it is dropped.
SeqBufferTimeout(n) ==
    /\ n \in seq_buffer
    /\ seq_buffer' = seq_buffer \ {n}
    /\ seq_expired' = TRUE
    /\ UNCHANGED <<current_sequence_number, seq_sync, seq_handled, seq_setup_count,
                   seq_issued, seq_all_issued, seq_delivered, nonSeqVars>>


(***************************************************************************)
(* The LastSync metas of DebugCommunity: last-1-test and last-9-test.      *)
(***************************************************************************)
LastSyncMetas == {"last-1-test", "last-9-test"}

\* the mis-declaration the retention property guards against: both metas
\* with the larger history
history_size_Nine(meta) == 9

\* initiate_meta_messages: LastSyncDistribution(..., history_size=1) for
\* last-1-test and history_size=9 for last-9-test; the property returns
\* self._history_size.
history_size(meta) == IF meta = "last-1-test" THEN 1 ELSE 9

LastRow(meta, member, global_time) ==
    [meta |-> meta, member |-> member, global_time |-> global_time]

\* the rows of one member for one meta
LastRowsOf(rows, meta, member) == {r \in rows : r.meta = meta /\ r.member = member}

\* the rows with one of the n highest global_time values
LastHighest(rows, n) ==
    {r \in rows : Cardinality({q \in rows : q.global_time > r.global_time}) < n}

\* The messages that arrive: last-1-test messages of two members with the
\* global times of the last-1 scenario, last-9-test messages of one member
\* with every global time up to MaxLastTime.
LastScenarioTimes == {3, 5, 7}

LastArrivals ==
    {LastRow("last-1-test", m, t) : m \in {"A", "B"}, t \in LastScenarioTimes}
        \cup {LastRow("last-9-test", "A", t) : t \in 1..MaxLastTime}

LastInit ==
    /\ last_sync = {}
    /\ last_inserted = {}

LastIdle == LastInit

\* A LastSync message is inserted: the row is added, then every row of
\* that member and meta beyond the history_size highest global times is
\* removed.
LastSyncInsert(row) ==
    /\ row \notin last_inserted
    /\ LET mine == LastRowsOf(last_sync, row.meta, row.member) \cup {row}
           keep == LastHighest(mine, history_size(row.meta))
       IN  last_sync' = (last_sync \ mine) \cup keep
    /\ last_inserted' = last_inserted \cup {row}
    /\ UNCHANGED nonLastVars


(***************************************************************************)
(* debugcommunity.py: the dynamic-resolution-text meta and the timeline's  *)
(* choice of its resolution.                                               *)
(***************************************************************************)
\* the declaration with the variants the other way round
DynamicVariants_Swapped == <<"LinearResolution", "PublicResolution">>

\* initiate_meta_messages: DynamicResolution(PublicResolution(), LinearResolution())
DynamicVariants == <<"PublicResolution", "LinearResolution">>

\* DynamicResolution.default: the first variant
DynamicDefault == DynamicVariants[1]

DynPolicyEvent(global_time, policy) == [global_time |-> global_time, policy |-> policy]

\* DebugNode.create_dynamic_resolution_text_message(text, global_time, policy)
\* by a member
DynMessage(member, global_time) == [member |-> member, global_time |-> global_time]

\* "M" is the master member, which every Linear check allows; nobody
\* authorized "A".
DynMembers == {"A", "M"}

DynGranted(member) == member = "M"

DynTimes == 9..MaxDynTime

\* Timeline.get_resolution_policy(meta, global_time): the policy of the last
\* dispersy-dynamic-settings event at or before global_time, the default
\* when there is none.
get_resolution_policy(policies, global_time) ==
    LET before == {e \in policies : e.global_time <= global_time}
    IN IF before = {} THEN DynamicDefault
       ELSE (CHOOSE e \in before : \A f \in before : f.global_time <= e.global_time).policy

\* Timeline.check(message) for a dynamic-resolution-text message
dyn_timeline_check(policies, message) ==
    \/ get_resolution_policy(policies, message.global_time) = "PublicResolution"
    \/ DynGranted(message.member)

\* DebugCommunity.check_text for a dynamic-resolution-text message
dyn_check_text(policies, message) ==
    IF dyn_timeline_check(policies, message) THEN "message" ELSE "DelayMessageByProof"

DynInit ==
    /\ dyn_policies = {}
    /\ dyn_sync = {}
    /\ dyn_delayed = {}

DynIdle == DynInit

\* A dispersy-dynamic-settings message of the master arrives and is stored
\* in the timeline (the master's messages have distinct global times).
DynamicSettings(global_time, policy) ==
    /\ Cardinality(dyn_policies) < MaxDynEvents
    /\ \A e \in dyn_policies : e.global_time # global_time
    /\ dyn_policies' = dyn_policies \cup {DynPolicyEvent(global_time, policy)}
    /\ UNCHANGED <<dyn_sync, dyn_delayed, nonDynVars>>

\* A dynamic-resolution-text message arrives: check_text, then the store or
\* the delay buffer.
ReceiveDynamicResolutionText(member, global_time) ==
    LET message == DynMessage(member, global_time)
    IN /\ message \notin dyn_sync \cup dyn_delayed
       /\ Cardinality(dyn_sync \cup dyn_delayed) < MaxDynMessages
       /\ IF dyn_check_text(dyn_policies, message) = "message"
          THEN dyn_sync' = dyn_sync \cup {message} /\ UNCHANGED dyn_delayed
          ELSE dyn_delayed' = dyn_delayed \cup {message} /\ UNCHANGED dyn_sync
       /\ UNCHANGED <<dyn_policies, nonDynVars>>


(***************************************************************************)
(* debugcommunity.py: double-signed-text and the signature request it      *)
(* goes through.                                                           *)
(***************************************************************************)
\* the texts allow_double_signed_text accepts (its assert)
DoubleSignedTexts == {"Allow=True", "Allow=False"}

\* a callback that allows every text, as the one of
\* last-1-doublemember-text does
allow_double_signed_text_Always(text) == TRUE

\* DebugCommunity.allow_double_signed_text(message), the
\* allow_signature_func of double-signed-text
allow_double_signed_text(text) == text = "Allow=True"

DblRequest(text, state) == [text |-> text, state |-> state]

DblInit ==
    /\ dbl_requests = <<>>
    /\ dbl_net_request = {}
    /\ dbl_net_response = {}
    /\ dbl_seen = {}
    /\ dbl_signed = {}
    /\ dbl_admitted = {}

DblIdle == DblInit

\* A: create_double_signed_text(text, B, response_func): the message with
\* A's signature goes to B in a dispersy-signature-request, and A waits for
\* the response until the timeout.
CreateDoubleSignedText(text) ==
    /\ Len(dbl_requests) < MaxRequests
    /\ dbl_requests' = Append(dbl_requests, DblRequest(text, "pending"))
    /\ dbl_net_request' = dbl_net_request \cup {Len(dbl_requests) + 1}
    /\ UNCHANGED <<dbl_net_response, dbl_seen, dbl_signed, dbl_admitted, nonDblVars>>

\* B receives the request: allow_signature_func of the meta is asked; when
\* it returns true B signs and sends the message back, otherwise the
\* request is dropped.
ReceiveSignatureRequest(id) ==
    /\ id \in dbl_net_request
    /\ dbl_net_request' = dbl_net_request \ {id}
    /\ dbl_seen' = dbl_seen \cup {id}
    /\ IF allow_double_signed_text(dbl_requests[id].text)
       THEN /\ dbl_signed' = dbl_signed \cup {id}
            /\ dbl_net_response' = dbl_net_response \cup {id}
       ELSE UNCHANGED <<dbl_signed, dbl_net_response>>
    /\ UNCHANGED <<dbl_requests, dbl_admitted, nonDblVars>>

\* A receives the response: while the request is pending the twice-signed
\* message is admitted (response_func gets it); a response to a request
\* that timed out is dropped.
ReceiveSignatureResponse(id) ==
    /\ id \in dbl_net_response
    /\ dbl_net_response' = dbl_net_response \ {id}
    /\ IF dbl_requests[id].state = "pending"
       THEN /\ dbl_requests' = [dbl_requests EXCEPT ![id].state = "admitted"]
            /\ dbl_admitted' = dbl_admitted \cup {id}
       ELSE UNCHANGED <<dbl_requests, dbl_admitted>>
    /\ UNCHANGED <<dbl_net_request, dbl_seen, dbl_signed, nonDblVars>>

\* The timeout of a pending request passes: response_func gets None.
SignatureRequestTimeout(id) ==
    /\ id \in 1..Len(dbl_requests)
    /\ dbl_requests[id].state = "pending"
    /\ dbl_requests' = [dbl_requests EXCEPT ![id].state = "timeout"]
    /\ UNCHANGED <<dbl_net_request, dbl_net_response, dbl_seen, dbl_signed,
                   dbl_admitted, nonDblVars>>

\* A packet in flight is lost.
SignaturePacketLost(id) ==
    /\ id \in dbl_net_request \cup dbl_net_response
    /\ dbl_net_request' = dbl_net_request \ {id}
    /\ dbl_net_response' = dbl_net_response \ {id}
    /\ UNCHANGED <<dbl_requests, dbl_seen, dbl_signed, dbl_admitted, nonDblVars>>


(***************************************************************************)
(* debugcommunity.py: the global time the create_* operations give their   *)
(* messages.                                                               *)
(***************************************************************************)
\* The metas whose create_* operation builds its message with
\* distribution=(self.claim_global_time(), ...): create_full_sync_text,
\* create_protected_full_sync_text, create_dynamic_resolution_text,
\* create_sequence_text.
ClaimingMetas == {"full-sync-text", "protected-full-sync-text",
                  "dynamic-resolution-text", "sequence-text"}

\* Community.claim_global_time: the new clock and what is returned
claim_global_time(global_time) ==
    [global_time |-> global_time + 1, result |-> global_time]

ClkMessage(meta, global_time) == [meta |-> meta, global_time |-> global_time]

\* the clock of a new overlay
ClkInit ==
    /\ clk_global_time = 1
    /\ clk_created = <<>>

ClkIdle == ClkInit

\* create_full_sync_text, create_protected_full_sync_text,
\* create_dynamic_resolution_text, create_sequence_text
CreateWithClaimedGlobalTime(meta) ==
    /\ Len(clk_created) < MaxCreated
    /\ LET claim == claim_global_time(clk_global_time)
       IN /\ clk_global_time' = claim.global_time
          /\ clk_created' = Append(clk_created, ClkMessage(meta, claim.result))
    /\ UNCHANGED nonClkVars

\* create_double_signed_text: distribution=(self.global_time,)
CreateDoubleSignedTextMessage ==
    /\ Len(clk_created) < MaxCreated
    /\ clk_created' = Append(clk_created,
                             ClkMessage("double-signed-text", clk_global_time))
    /\ UNCHANGED <<clk_global_time, nonClkVars>>

\* A message of another peer with a higher global time is admitted: the
\* clock of the overlay follows it.
ClockFollows(global_time) ==
    /\ global_time > clk_global_time
    /\ clk_global_time' = global_time
    /\ UNCHANGED <<clk_created, nonClkVars>>


(***************************************************************************)
(* tests/dispersytestclass.py and tests/test_unittest.py: the test methods *)
(* that make a task of the callback engine raise, the exception hook, and  *)
(* the engine they run on.                                                 *)
(***************************************************************************)
Exc(type, message) == [type |-> type, message |-> message]

NoException == Exc("none", "")

\* what a task gets at its suspension point when the engine shuts down
EarlyShutdown == Exc("RuntimeError", "Early shutdown")

CbTest(strict, submit, exception, yields) ==
    [strict |-> strict, submit |-> submit, exception |-> exception, yields |-> yields]

\* The test methods.  submit says what the method does with its task:
\* "register" (callback.register(task)), "call" (callback.call(task)),
\* "inline" (the method itself raises: test_assert, test_KeyError), "loop"
\* (test_infinite_loop_at_shutdown).  The task yields 0.1 `yields` times
\* and then raises `exception`.
CbTests ==
    {CbTest(s, m, e, y) : s \in BOOLEAN, m \in {"register", "call"},
                          e \in {"AssertionError", "KeyError"}, y \in 0..MaxYields}
        \cup {CbTest(s, "inline", e, 0) : s \in BOOLEAN, e \in {"AssertionError", "KeyError"}}
        \cup {CbTest(TRUE, "loop", "AssertionError", 0)}

\* the exception the task (or the method itself) raises
TaskException(test) ==
    Exc(test.exception,
        IF test.submit = "register" /\ ~ test.strict THEN "This must be ignored"
        ELSE "This must fail")

\* call_on_dispersy_thread: callback.call(func, args, kargs, priority=-1024)
BodyPriority == 0 - 1024

\* callback.register(task): the default priority
TaskPriority == 0

\* a wait that looks at the tasks above the default priority only
StopWaitsFor_Above(priority) == priority > 0

\* Dispersy.stop: Callback.call(..., priority=-512, timeout=10.0) runs once
\* the tasks with a priority of -512 or higher are gone
StopWaitsFor(priority) == priority >= 0 - 512

on_callback_exception_NeverFatal(strict, dispersy) ==
    [call_stop |-> strict /\ dispersy, fatal |-> FALSE]

on_callback_exception_AlwaysFatal(strict, dispersy) ==
    [call_stop |-> dispersy, fatal |-> TRUE]

\* DispersyTestFunc.on_callback_exception(exception, is_fatal): whether it
\* calls dispersy.stop() (after it has set self._dispersy to None), and what
\* it returns
on_callback_exception(strict, dispersy) ==
    [call_stop |-> strict /\ dispersy, fatal |-> strict]

\* the exception of a call-run task as the caller of call gets it
DeliveredToCaller_Wrapped(exception) == Exc("RuntimeError", exception.message)

DeliveredToCaller(exception) == exception

CbCaller(status, exception) == [status |-> status, exception |-> exception]

CbBody(pc, wake) == [pc |-> pc, wake |-> wake]

CbTask(pc, yields_left, wake) == [pc |-> pc, yields_left |-> yields_left, wake |-> wake]

\* setUp has run and callback.call has put the test method on the engine.
CbInit ==
    /\ cb_test \in CbTests
    /\ cb_phase = "test"
    /\ cb_strict = TRUE
    /\ cb_dispersy = TRUE
    /\ cb_stop_result = FALSE
    /\ cb_engine = "running"
    /\ cb_now = 0
    /\ cb_body = CbBody("start", 0)
    /\ cb_task = CbTask("none", 0, 0)
    /\ cb_caller = CbCaller("pending", NoException)
    /\ cb_raiser = "none"
    /\ cb_pending = NoException
    /\ cb_stop_from = "none"
    /\ cb_stop_deadline = 0
    /\ cb_hook = <<>>
    /\ cb_stop_returned = <<>>
    /\ cb_past_yield = FALSE

\* The callback variables while another specification runs.
CbIdle ==
    /\ cb_test = CbTest(TRUE, "inline", "AssertionError", 0)
    /\ cb_phase = "finished"
    /\ cb_strict = TRUE
    /\ cb_dispersy = FALSE
    /\ cb_stop_result = FALSE
    /\ cb_engine = "stopped"
    /\ cb_now = 0
    /\ cb_body = CbBody("start", 0)
    /\ cb_task = CbTask("none", 0, 0)
    /\ cb_caller = CbCaller("pending", NoException)
    /\ cb_raiser = "none"
    /\ cb_pending = NoException
    /\ cb_stop_from = "none"
    /\ cb_stop_deadline = 0
    /\ cb_hook = <<>>
    /\ cb_stop_returned = <<>>
    /\ cb_past_yield = FALSE

\* The engine is done with an exception of `raiser` (its hook has returned
\* `fatal`): a fatal one shuts the engine down, and every task suspended at
\* a yield gets EarlyShutdown there; the exception of a call-run task goes
\* to the caller of call.  body and task are the tasks as they are now.
CbFinish(raiser, exception, fatal, body, task) ==
    /\ cb_engine' = IF fatal THEN "stopped" ELSE "running"
    /\ cb_body' = IF fatal /\ body.pc = "yield" THEN CbBody("killed", body.wake) ELSE body
    /\ cb_task' = IF fatal /\ task.pc = "registered"
                  THEN CbTask("killed", task.yields_left, task.wake) ELSE task
    /\ cb_caller' = IF raiser = "body"
                    THEN CbCaller("raised", DeliveredToCaller(exception))
                    ELSE IF fatal /\ body.pc = "yield"
                         THEN CbCaller("raised", DeliveredToCaller(EarlyShutdown))
                         ELSE cb_caller

\* A task raised: the engine invokes the exception hook.  When the hook
\* calls dispersy.stop() the engine is inside that call next; otherwise the
\* hook returns at once.  body and task are the tasks after the raise, now
\* the time of the raise.
CbHandleException(raiser, exception, body, task, now, strict) ==
    LET hook == on_callback_exception(strict, cb_dispersy)
    IN /\ cb_hook' = Append(cb_hook, [exception |-> exception, fatal |-> hook.fatal])
       /\ cb_now' = now
       /\ cb_strict' = strict
       /\ IF hook.call_stop
          THEN /\ cb_dispersy' = FALSE
               /\ cb_engine' = "stopping"
               /\ cb_stop_from' = "hook"
               /\ cb_stop_deadline' = now + StopTimeout * 10
               /\ cb_raiser' = raiser
               /\ cb_pending' = exception
               /\ cb_body' = body
               /\ cb_task' = task
               /\ UNCHANGED cb_caller
          ELSE /\ CbFinish(raiser, exception, hook.fatal, body, task)
               /\ UNCHANGED <<cb_dispersy, cb_stop_from, cb_stop_deadline, cb_raiser,
                              cb_pending>>

\* what the test methods of the non-strict tests do first
CbStrictOf(test) == test.strict

\* test_assert, test_KeyError: the test method itself raises.
BodyRaises ==
    /\ cb_engine = "running" /\ cb_body.pc = "start" /\ cb_test.submit = "inline"
    /\ CbHandleException("body", TaskException(cb_test), CbBody("raised", cb_now), cb_task,
                         cb_now, CbStrictOf(cb_test))
    /\ UNCHANGED <<cb_test, cb_phase, cb_stop_result, cb_stop_returned, cb_past_yield,
                   nonCbVars>>

\* test_*_callback, test_*_callback_generator: the test method sets
\* enable_strict, registers the task and yields 1.0.
BodyRegisters ==
    /\ cb_engine = "running" /\ cb_body.pc = "start" /\ cb_test.submit = "register"
    /\ cb_strict' = CbStrictOf(cb_test)
    /\ cb_task' = CbTask("registered", cb_test.yields, cb_now)
    /\ cb_body' = CbBody("yield", cb_now + 10)
    /\ UNCHANGED <<cb_test, cb_phase, cb_dispersy, cb_stop_result, cb_engine, cb_now,
                   cb_caller, cb_raiser, cb_pending, cb_stop_from, cb_stop_deadline,
                   cb_hook, cb_stop_returned, cb_past_yield, nonCbVars>>

\* The engine wakes the registered task (its wake time is the earliest): it
\* yields 0.1 again, or it raises.
TaskRuns ==
    /\ cb_engine = "running" /\ cb_task.pc = "registered" /\ cb_test.submit = "register"
    /\ cb_body.pc = "yield" => cb_task.wake < cb_body.wake
    /\ LET now == Max(cb_now, cb_task.wake)
       IN IF cb_task.yields_left > 0
          THEN /\ cb_task' = CbTask("registered", cb_task.yields_left - 1, now + 1)
               /\ cb_now' = now
               /\ UNCHANGED <<cb_strict, cb_dispersy, cb_engine, cb_body, cb_caller,
                              cb_raiser, cb_pending, cb_stop_from, cb_stop_deadline,
                              cb_hook>>
          ELSE CbHandleException("task", TaskException(cb_test), cb_body,
                                 CbTask("raised", 0, now), now, cb_strict)
    /\ UNCHANGED <<cb_test, cb_phase, cb_stop_result, cb_stop_returned, cb_past_yield,
                   nonCbVars>>

\* test_*_callback_call, test_*_callback_call_generator: the test method
\* sets enable_strict and runs the task through callback.call; on the
\* engine's own thread the task runs inside the call.
BodyCalls ==
    /\ cb_engine = "running" /\ cb_body.pc = "start" /\ cb_test.submit = "call"
    /\ cb_strict' = CbStrictOf(cb_test)
    /\ cb_body' = CbBody("calling", cb_now)
    /\ cb_task' = CbTask("inline", cb_test.yields, cb_now)
    /\ UNCHANGED <<cb_test, cb_phase, cb_dispersy, cb_stop_result, cb_engine, cb_now,
                   cb_caller, cb_raiser, cb_pending, cb_stop_from, cb_stop_deadline,
                   cb_hook, cb_stop_returned, cb_past_yield, nonCbVars>>

\* The task inside callback.call goes on: it yields 0.1 again, or it
\* raises; call hands the exception to its caller, the test method, which
\* does not catch it.
InlineTaskRuns ==
    /\ cb_engine = "running" /\ cb_body.pc = "calling" /\ cb_task.pc = "inline"
    /\ IF cb_task.yields_left > 0
       THEN /\ cb_task' = CbTask("inline", cb_task.yields_left - 1, cb_now + 1)
            /\ cb_now' = cb_now + 1
            /\ UNCHANGED <<cb_strict, cb_dispersy, cb_engine, cb_body, cb_caller,
                           cb_raiser, cb_pending, cb_stop_from, cb_stop_deadline,
                           cb_hook>>
       ELSE CbHandleException("body", DeliveredToCaller(TaskException(cb_test)),
                              CbBody("raised", cb_now), CbTask("raised", 0, cb_now),
                              cb_now, cb_strict)
    /\ UNCHANGED <<cb_test, cb_phase, cb_stop_result, cb_stop_returned, cb_past_yield,
                   nonCbVars>>

\* The engine wakes the test method after its yield 1.0: assertTrue(True)
\* in the non-strict register tests, self.fail("Should not reach this") in
\* the others.
BodyResumes ==
    /\ cb_engine = "running" /\ cb_body.pc = "yield"
    /\ cb_task.pc = "registered" => cb_body.wake <= cb_task.wake
    /\ cb_past_yield' = TRUE
    /\ LET now == Max(cb_now, cb_body.wake)
       IN IF cb_test.submit = "register" /\ ~ cb_test.strict
          THEN /\ cb_body' = CbBody("done", now)
               /\ cb_caller' = CbCaller("returned", NoException)
               /\ cb_now' = now
               /\ UNCHANGED <<cb_strict, cb_dispersy, cb_engine, cb_task, cb_raiser,
                              cb_pending, cb_stop_from, cb_stop_deadline, cb_hook>>
          ELSE CbHandleException("body", Exc("AssertionError", "Should not reach this"),
                                 CbBody("raised", now), cb_task, now, cb_strict)
    /\ UNCHANGED <<cb_test, cb_phase, cb_stop_result, cb_stop_returned, nonCbVars>>

\* test_infinite_loop_at_shutdown: the test method runs task(callback)
\* itself (the task registers itself and sleeps for a second), then its
\* assertTrue(False, "This must fail") raises.
BodyLoops ==
    /\ cb_engine = "running" /\ cb_body.pc = "start" /\ cb_test.submit = "loop"
    /\ CbHandleException("body", TaskException(cb_test), CbBody("raised", cb_now + 10),
                         CbTask("registered", 0, cb_now), cb_now + 10, cb_strict)
    /\ UNCHANGED <<cb_test, cb_phase, cb_stop_result, cb_stop_returned, cb_past_yield,
                   nonCbVars>>

\* The task of test_infinite_loop_at_shutdown runs: it registers itself
\* again and sleeps for a second.
LoopTaskRuns ==
    /\ cb_engine \in {"running", "stopping"}
    /\ cb_test.submit = "loop" /\ cb_task.pc = "registered"
    /\ cb_engine = "stopping" => cb_now < cb_stop_deadline
    /\ cb_now' = cb_now + 10
    /\ cb_task' = CbTask("registered", 0, cb_now + 10)
    /\ UNCHANGED <<cb_test, cb_phase, cb_strict, cb_dispersy, cb_stop_result, cb_engine,
                   cb_body, cb_caller, cb_raiser, cb_pending, cb_stop_from,
                   cb_stop_deadline, cb_hook, cb_stop_returned, cb_past_yield,
                   nonCbVars>>

\* no task that Dispersy.stop waits for is left
StopDrained ==
    /\ ~ (cb_task.pc = "registered" /\ StopWaitsFor(TaskPriority))
    /\ ~ (cb_body.pc = "yield" /\ StopWaitsFor(BodyPriority))

\* Dispersy.stop returns: True when the tasks it waits for are gone, False
\* when its timeout has passed.  Called by the hook, the hook stores the
\* result and returns, and the engine finishes the exception; called by
\* tearDown, tearDown stores the result.
StopReturns ==
    /\ cb_engine = "stopping"
    /\ StopDrained \/ cb_now >= cb_stop_deadline
    /\ cb_stop_result' = StopDrained
    /\ cb_stop_returned' = Append(cb_stop_returned,
                                  [result |-> StopDrained,
                                   elapsed |-> cb_now - (cb_stop_deadline - StopTimeout * 10)])
    /\ cb_stop_from' = "none"
    /\ cb_raiser' = "none"
    /\ cb_pending' = NoException
    /\ IF cb_stop_from = "hook"
       THEN /\ CbFinish(cb_raiser, cb_pending,
                        on_callback_exception(cb_strict, TRUE).fatal, cb_body, cb_task)
            /\ UNCHANGED cb_phase
       ELSE /\ cb_engine' = "stopped"
            /\ cb_phase' = "finished"
            /\ UNCHANGED <<cb_body, cb_task, cb_caller>>
    /\ UNCHANGED <<cb_test, cb_strict, cb_dispersy, cb_now, cb_stop_deadline, cb_hook,
                   cb_past_yield, nonCbVars>>

\* DispersyTestFunc.tearDown, once callback.call has returned to the test
\* thread: Dispersy.stop is called when self._dispersy is still set.
TearDown ==
    /\ cb_phase = "test"
    /\ cb_caller.status # "pending"
    /\ cb_engine # "stopping"
    /\ IF cb_dispersy
       THEN /\ cb_dispersy' = FALSE
            /\ cb_engine' = "stopping"
            /\ cb_stop_from' = "tearDown"
            /\ cb_stop_deadline' = cb_now + StopTimeout * 10
            /\ cb_phase' = "tearDown"
       ELSE /\ cb_phase' = "finished"
            /\ UNCHANGED <<cb_dispersy, cb_engine, cb_stop_from, cb_stop_deadline>>
    /\ UNCHANGED <<cb_test, cb_strict, cb_stop_result, cb_now, cb_body, cb_task,
                   cb_caller, cb_raiser, cb_pending, cb_hook, cb_stop_returned,
                   cb_past_yield, nonCbVars>>


(***************************************************************************)
(* tests/test_unittest.py, tests/dispersytestclass.py: the priorities the  *)
(* tests give their tasks and the order the engine runs ready tasks in.    *)
(***************************************************************************)
\* Dispersy.stop: Callback.call(..., priority=-512, timeout=10.0)
StopPriority == 0 - 512

\* the priorities of the tasks of the tests: the test method (-1024), the
\* call of Dispersy.stop (-512), a task registered with the default (0)
SchPriorities == {BodyPriority, StopPriority, TaskPriority}

\* an engine that runs the lower integer first
RunsBefore_LowerFirst(p, q) == p < q

\* test_infinite_loop_at_shutdown: the task registered at the default
\* priority "has a higher priority" than the call at -512 "and will
\* continue to run" while that call waits: of two ready tasks the one with
\* the higher integer runs first.
RunsBefore(p, q) == p > q

\* the index in ready of the task the engine runs next: none goes before
\* it by priority, and among equals the one registered first
SchNext(ready) ==
    CHOOSE i \in 1..Len(ready) :
        /\ \A j \in 1..Len(ready) : ~ RunsBefore(ready[j], ready[i])
        /\ \A j \in 1..(i - 1) : RunsBefore(ready[i], ready[j])

SchRemove(ready, i) == SubSeq(ready, 1, i - 1) \o SubSeq(ready, i + 1, Len(ready))

SchInit ==
    /\ sch_ready = <<>>
    /\ sch_registered = 0
    /\ sch_ran = <<>>
    /\ sch_passed = {}

SchIdle == SchInit

\* callback.register(task, priority=priority), or a callback.call from
\* another thread: the task is ready to run
SchRegister(priority) ==
    /\ sch_registered < MaxTasks
    /\ sch_ready' = Append(sch_ready, priority)
    /\ sch_registered' = sch_registered + 1
    /\ UNCHANGED <<sch_ran, sch_passed, nonSchVars>>

\* The engine takes the next ready task and runs it to its end.
SchRun ==
    /\ sch_ready # <<>>
    /\ LET i == SchNext(sch_ready)
       IN /\ sch_ready' = SchRemove(sch_ready, i)
          /\ sch_ran' = Append(sch_ran, sch_ready[i])
          /\ sch_passed' = sch_passed \cup
                {[ran |-> sch_ready[i], waiting |-> sch_ready[j]] :
                    j \in (1..Len(sch_ready)) \ {i}}
    /\ UNCHANGED <<sch_registered, nonSchVars>>


(***************************************************************************)
(* tool/tracker.py: a batch of dispersy-introduction-request messages goes *)
(* through check_introduction_request and on_introduction_request.         *)
(***************************************************************************)
\* the senders of a batch: two walk candidates and a bootstrap candidate
IntroCandidates == {"peer", "peer2"} \cup BootstrapCandidates

\* What the base check yields for one message: the message itself
\* (Message.Implementation), or a DropMessage or DelayMessage for it.
IntroItems == [kind : {"message", "DropMessage", "DelayMessage"}, cand : IntroCandidates]

RECURSIVE IntroBatches(_)
IntroBatches(n) ==
    IF n = 0 THEN {<<>>}
    ELSE IntroBatches(n - 1) \cup
         {Append(b, item) : b \in {x \in IntroBatches(n - 1) : Len(x) = n - 1}, item \in IntroItems}

\* TrackerDispersy.check_introduction_request over the items of the base
\* check, one yield per item
check_introduction_request_batch(messages) ==
    [i \in 1..Len(messages) |->
        [kind |-> check_introduction_request(messages[i].kind, messages[i].cand),
         cand |-> messages[i].cand]]

\* The engine gives the handler the messages the check yielded; a
\* DropMessage or DelayMessage never reaches the handler.
IntroIsMessage(item) == item.kind = "message"

\* TrackerDispersy.on_introduction_request: the lines it prints
on_introduction_request_lines(messages, is_silent) ==
    IF ~ is_silent
    THEN [i \in 1..Len(messages) |-> PrintLine("REQ_IN2", "X", messages[i].cand)]
    ELSE <<>>

IntroInit ==
    /\ intro_silent \in BOOLEAN
    /\ intro_batch = <<>>
    /\ intro_checked = <<>>
    /\ intro_handled = <<>>
    /\ intro_printed = <<>>

IntroIdle ==
    /\ intro_silent = FALSE
    /\ intro_batch = <<>>
    /\ intro_checked = <<>>
    /\ intro_handled = <<>>
    /\ intro_printed = <<>>

\* One batch of introduction requests: the check, then the handler for
\* the messages that were yielded.
IntroductionRequestBatch(messages) ==
    /\ messages # <<>>
    /\ LET checked == check_introduction_request_batch(messages)
           handled == SelectSeq(checked, IntroIsMessage)
       IN /\ intro_batch' = messages
          /\ intro_checked' = checked
          /\ intro_handled' = handled
          /\ intro_printed' = IF handled # <<>>
                              THEN on_introduction_request_lines(handled, intro_silent)
                              ELSE <<>>
    /\ UNCHANGED <<intro_silent, nonIntroVars>>


(***************************************************************************)
(* doc/tutorial-part2.py: ChatCommunity, its text and beg-permission       *)
(* messages.                                                               *)
(***************************************************************************)
ChatPermissions == {"permit", "authorize", "revoke"}

\* payload.voice and payload.operator: negative, zero or positive
ChatWishes == {0 - 1, 0, 1}

\* a beg-permission message of another member
BegPermissionMessage(voice, operator) == [member |-> "other", voice |-> voice, operator |-> operator]

BegPermissionMessages == {BegPermissionMessage(voice, operator) : voice \in ChatWishes, operator \in ChatWishes}

RECURSIVE BegPermissionBatches(_)
BegPermissionBatches(n) ==
    IF n = 0 THEN {<<>>}
    ELSE BegPermissionBatches(n - 1) \cup
         {Append(b, message) : b \in {x \in BegPermissionBatches(n - 1) : Len(x) = n - 1},
                               message \in BegPermissionMessages}

\* Timeline.allowed(meta, permission=permission): the pair (allowed, proofs)
\* for my_member
timeline_allowed(rights, permission) ==
    <<permission \in rights, IF permission \in rights THEN <<"proof">> ELSE <<>>>>

\* the truth value of a tuple in a condition: an empty tuple is false, any
\* other tuple is true
tuple_truth(tuple) == Len(tuple) > 0

\* "a and b" of two tuples: a when a is false, otherwise b
tuple_and(a, b) == IF tuple_truth(a) THEN b ELSE a

create_text_allowed_Always(rights) == TRUE

\* create_text: allowed, proof = self.timeline.allowed(meta)
create_text_allowed(rights) == timeline_allowed(rights, "permit")[1]

\* check_beg_permission: allowed = (self.timeline.allowed(meta,
\* permission=u"authorize") and self.timeline.allowed(meta,
\* permission=u"revoke")), a tuple
check_beg_permission_allowed(rights) ==
    tuple_and(timeline_allowed(rights, "authorize"), timeline_allowed(rights, "revoke"))

\* check_beg_permission: what it yields for each message of the batch
check_beg_permission(rights, messages) ==
    LET allowed == check_beg_permission_allowed(rights)
    IN [i \in 1..Len(messages) |->
          IF tuple_truth(allowed) THEN "message" ELSE "DropMessage"]

\* on_beg_permission for one message: the authorize and revoke requests
\* it makes for the author of the message
on_beg_permission_message(message) ==
    (IF message.voice > 0
     THEN {[op |-> "authorize", member |-> message.member, permission |-> "permit"]}
     ELSE IF message.voice < 0
     THEN {[op |-> "revoke", member |-> message.member, permission |-> "permit"]}
     ELSE {})
    \cup
    (IF message.operator > 0
     THEN {[op |-> "authorize", member |-> message.member, permission |-> p] : p \in {"authorize", "revoke"}}
     ELSE IF message.operator < 0
     THEN {[op |-> "revoke", member |-> message.member, permission |-> p] : p \in {"authorize", "revoke"}}
     ELSE {})

\* on_beg_permission for the messages the check yielded
on_beg_permission(messages, yielded) ==
    UNION {on_beg_permission_message(messages[i]) : i \in {j \in 1..Len(messages) : yielded[j] = "message"}}

ChatEvent(op, rights, yielded, handled) ==
    [op |-> op, rights |-> rights, yielded |-> yielded, handled |-> handled]

ChatInit ==
    /\ chat_rights \in SUBSET ChatPermissions
    /\ chat_global_time = 1
    /\ chat_sync = {}
    /\ chat_forwarded = {}
    /\ chat_handled = {}
    /\ chat_granted = {}
    /\ chat_event = ChatEvent("start", {}, <<>>, 0)

ChatIdle ==
    /\ chat_rights = {}
    /\ chat_global_time = 1
    /\ chat_sync = {}
    /\ chat_forwarded = {}
    /\ chat_handled = {}
    /\ chat_granted = {}
    /\ chat_event = ChatEvent("start", {}, <<>>, 0)

\* ChatCommunity.create_text
create_text ==
    /\ chat_global_time < MaxChatTime
    /\ IF create_text_allowed(chat_rights)
       THEN LET claimed == claim_global_time(chat_global_time)
                message == [meta |-> "text", member |-> "me", global_time |-> claimed.result]
            IN /\ chat_global_time' = claimed.global_time
               /\ chat_sync' = chat_sync \cup {message}
               /\ chat_handled' = chat_handled \cup {message}
               /\ chat_forwarded' = chat_forwarded \cup {message}
               /\ chat_event' = ChatEvent("create_text", chat_rights, <<"message">>, 1)
       ELSE /\ chat_event' = ChatEvent("create_text", chat_rights, <<>>, 0)
            /\ UNCHANGED <<chat_global_time, chat_sync, chat_handled, chat_forwarded>>
    /\ UNCHANGED <<chat_rights, chat_granted, nonChatVars>>

\* A batch of beg-permission messages of another member arrives:
\* check_beg_permission, then on_beg_permission for what was yielded.
ReceiveBegPermission(messages) ==
    /\ messages # <<>>
    /\ LET yielded == check_beg_permission(chat_rights, messages)
           handled == {j \in 1..Len(messages) : yielded[j] = "message"}
       IN /\ chat_granted' = chat_granted \cup on_beg_permission(messages, yielded)
          /\ chat_event' = ChatEvent("beg-permission", chat_rights, yielded, Cardinality(handled))
    /\ UNCHANGED <<chat_rights, chat_global_time, chat_sync, chat_handled, chat_forwarded, nonChatVars>>

\* An authorize or revoke of another member for my_member is processed:
\* what the timeline allows my_member changes.
ChatTimelineUpdate(op, permission) ==
    /\ chat_rights' = IF op = "authorize" THEN chat_rights \cup {permission}
                                          ELSE chat_rights \ {permission}
    /\ chat_rights' # chat_rights
    /\ chat_event' = ChatEvent(op, chat_rights', <<>>, 0)
    /\ UNCHANGED <<chat_global_time, chat_sync, chat_handled, chat_forwarded, chat_granted, nonChatVars>>


(***************************************************************************)
(* distribution.py: FullSyncDistribution.Implementation.__init__.          *)
(***************************************************************************)
\* a FullSync meta without and one with sequence numbers
ImplMetas == {"full-sync-text", "sequence-text"}

ImplGlobalTimes == {1, 2}

ImplSequenceNumbers == (0 - 1)..MaxImplSequence

FullSyncImplementation(meta, global_time, sequence_number) ==
    [meta |-> meta, global_time |-> global_time, sequence_number |-> sequence_number]

FullSyncDistribution_Implementation_init_NonNegative(meta, sequence_number) ==
    IF \/ enable_sequence_number(meta) /\ sequence_number >= 0
       \/ ~ enable_sequence_number(meta) /\ sequence_number = 0
    THEN "ok" ELSE "AssertionError"

\* FullSyncDistribution.Implementation.__init__: the assert on the
\* sequence number
FullSyncDistribution_Implementation_init(meta, sequence_number) ==
    IF \/ enable_sequence_number(meta) /\ sequence_number > 0
       \/ ~ enable_sequence_number(meta) /\ sequence_number = 0
    THEN "ok" ELSE "AssertionError"

ImplEvent(meta, sequence_number, result) ==
    [meta |-> meta, sequence_number |-> sequence_number, result |-> result]

ImplInit ==
    /\ impl_existing = {}
    /\ impl_event = ImplEvent("none", 0, "")

ImplIdle == ImplInit

\* FullSyncDistribution.Implementation(meta, global_time, sequence_number)
ConstructFullSync(meta, global_time, sequence_number) ==
    /\ LET result == FullSyncDistribution_Implementation_init(meta, sequence_number)
       IN /\ impl_event' = ImplEvent(meta, sequence_number, result)
          /\ impl_existing' = IF result = "ok"
                              THEN impl_existing \cup {FullSyncImplementation(meta, global_time, sequence_number)}
                              ELSE impl_existing
    /\ UNCHANGED nonImplVars


(***************************************************************************)
(* TrackerDispersy._convert_packets_into_batch for one incoming packet.    *)
(***************************************************************************)
\* __init__: the hosts of the bootstrap candidates are non-autoload hosts
non_autoload == BootstrapCandidates

\* filter_non_bootstrap_nodes: TRUE when the packet is yielded, FALSE when
\* it is dropped.  The condition of the drop is
\*   not cid in self._communities and False
\* (the test candidate.sock_addr[0] in self._non_autoload is commented out).
filter_non_bootstrap_nodes(cand, cid) ==
    ~ (cid \notin DOMAIN communities /\ FALSE)

\* A packet of overlay cid arrives from cand: the packets the filter
\* yields go to the base conversion, which gets the overlay with
\* get_community.
ConvertPacketsIntoBatch(cand, cid) ==
    /\ IF filter_non_bootstrap_nodes(cand, cid)
       THEN LET r == TrackerDispersy_get_community(cid)
            IN /\ communities' = r.comms
               /\ classification' = r.classification
               /\ event' = Event("packet", IF r.raised THEN "KeyError" ELSE "")
       ELSE /\ event' = Event("packet", "drop")
            /\ UNCHANGED <<communities, classification>>
    /\ printed' = <<>>
    /\ UNCHANGED <<candidate_active, batch_cache, storage, silent, destroyed,
                   no_candidate_ticks>>
    /\ UNCHANGED nonTrackerVars

(***************************************************************************)
(* One iteration of TrackerDispersy._report_statistics (every 300 s).      *)
(***************************************************************************)
StatisticsLine(tag, values) == [tag |-> tag, values |-> values]

\* an overlay counts under the class it was last given, loaded or not
report_statistics_mapping_Classified(cls) ==
    Cardinality({cid \in CIDs : classification[cid] = cls})

\* mapping[type(community)] += 1 for community in self._communities.itervalues()
report_statistics_mapping(cls) ==
    Cardinality({cid \in DOMAIN communities : communities[cid].cls = cls})

\* The task is registered only when the tracker is not silent.  The
\* counters of the endpoint are outside the model: the BANDWIDTH line
\* carries no values and there are no OUTGOING lines.  CANDIDATE counts the
\* candidates that are active in an overlay.
ReportStatistics ==
    /\ ~ silent
    /\ printed' = << StatisticsLine("BANDWIDTH", <<>>),
                     StatisticsLine("COMMUNITY", <<report_statistics_mapping(TrackerCommunity),
                                                   report_statistics_mapping(TrackerHardKilledCommunity)>>),
                     StatisticsLine("CANDIDATE",
                        <<Cardinality({candidate \in WalkCandidates : candidate_active[candidate] # {}})>>) >>
    /\ event' = Event("statistics", "")
    /\ UNCHANGED <<communities, classification, candidate_active, batch_cache, storage, silent,
                   destroyed, no_candidate_ticks>>
    /\ UNCHANGED nonTrackerVars


(***************************************************************************)
(* tool/tracker.py: TrackerDispersy.create_introduction_request.           *)
(***************************************************************************)
\* the destinations of a step: two walk candidates and a bootstrap candidate
WalkDestinations == {"peer", "peer2"} \cup BootstrapCandidates

IntroductionRequestMessage(community, destination, allow_sync) ==
    [community |-> community, destination |-> destination, allow_sync |-> allow_sync]

\* Dispersy.create_introduction_request: the request is created, sent to
\* the destination when forward is set, and returned.
Dispersy_create_introduction_request(created, sent, community, destination, allow_sync, forward) ==
    LET request == IntroductionRequestMessage(community, destination, allow_sync)
    IN [created |-> Append(created, request),
        sent |-> IF forward THEN Append(sent, request) ELSE sent,
        result |-> "request"]

TrackerDispersy_create_introduction_request_Always(created, sent, community, destination, allow_sync, forward) ==
    Dispersy_create_introduction_request(created, sent, community, destination, allow_sync, forward)

\* TrackerDispersy.create_introduction_request: no step towards another
\* tracker; without the call of the base method the result is None
TrackerDispersy_create_introduction_request(created, sent, community, destination, allow_sync, forward) ==
    IF destination \notin BootstrapCandidates
    THEN Dispersy_create_introduction_request(created, sent, community, destination, allow_sync, forward)
    ELSE [created |-> created, sent |-> sent, result |-> "None"]

WalkEvent(destination, forward, result) ==
    [destination |-> destination, forward |-> forward, result |-> result]

WalkInit ==
    /\ walk_created = <<>>
    /\ walk_sent = <<>>
    /\ walk_event = WalkEvent("none", FALSE, "")

WalkIdle == WalkInit

CreateIntroductionRequest(community, destination, allow_sync, forward) ==
    /\ Len(walk_created) < MaxWalkRequests
    /\ LET r == TrackerDispersy_create_introduction_request(
                    walk_created, walk_sent, community, destination, allow_sync, forward)
       IN /\ walk_created' = r.created
          /\ walk_sent' = r.sent
          /\ walk_event' = WalkEvent(destination, forward, r.result)
    /\ UNCHANGED nonWalkVars


(***************************************************************************)
(* tool/tracker.py: TrackerCommunity.dispersy_yield_introduce_candidates.  *)
(***************************************************************************)
RrCandidates == {"a", "b", "c"}

\* the orders the iterator can go through the candidates of an overlay in
RrOrders ==
    {order \in UNION {[1..n -> RrCandidates] : n \in 0..Cardinality(RrCandidates)} :
        \A i, j \in DOMAIN order : i # j => order[i] # order[j]}

\* _walked_stumbled_candidates.next(): the iterator of _iter_categories
\* goes round the candidates and returns None when there is none
iter_categories_next(candidates, index) ==
    IF candidates = <<>>
    THEN [result |-> "None", index |-> index]
    ELSE [result |-> candidates[index], index |-> (index % Len(candidates)) + 1]

\* a loop that yields whatever the iterator returns unless it repeats
introduce_candidates_next_NoExclusion(candidates, index, candidate, prev_result, results) ==
    LET n == iter_categories_next(candidates, index)
    IN [index |-> n.index, prev_result |-> n.result, results |-> Append(results, n.result),
        yield |-> IF prev_result = n.result THEN "None" ELSE n.result]

\* a loop that, after the candidate not to yield, passes over one more
\* item of the iterator
introduce_candidates_next_PassOver(candidates, index, candidate, prev_result, results) ==
    LET n1 == iter_categories_next(candidates, index)
        n2 == iter_categories_next(candidates, n1.index)
        n3 == iter_categories_next(candidates, n2.index)
    IN IF prev_result = n1.result
       THEN [index |-> n1.index, prev_result |-> prev_result,
             results |-> Append(results, n1.result), yield |-> "None"]
       ELSE IF n1.result = candidate
            THEN [index |-> n3.index, prev_result |-> n3.result,
                  results |-> results \o <<n1.result, n2.result, n3.result>>,
                  yield |-> IF n3.result = candidate THEN "None" ELSE n3.result]
            ELSE [index |-> n1.index, prev_result |-> n1.result,
                  results |-> Append(results, n1.result), yield |-> n1.result]

\* The while loop of dispersy_yield_introduce_candidates up to its next
\* yield: the new position of the iterator, the new prev_result, what the
\* iterator returned and what is yielded.
RECURSIVE introduce_candidates_next(_, _, _, _, _)
introduce_candidates_next(candidates, index, candidate, prev_result, results) ==
    LET n == iter_categories_next(candidates, index)
        result == n.result
        seen == Append(results, result)
    IN IF prev_result = result
       THEN [index |-> n.index, prev_result |-> prev_result, results |-> seen, yield |-> "None"]
       ELSE IF result = candidate
            THEN introduce_candidates_next(candidates, n.index, candidate, result, seen)
            ELSE [index |-> n.index, prev_result |-> result, results |-> seen, yield |-> result]

RrInit ==
    /\ rr_candidates \in RrOrders
    /\ rr_index = 1
    /\ rr_candidate = "None"
    /\ rr_prev_result = "None"
    /\ rr_results = <<>>
    /\ rr_yields = <<>>

RrIdle ==
    /\ rr_candidates = <<>>
    /\ rr_index = 1
    /\ rr_candidate = "None"
    /\ rr_prev_result = "None"
    /\ rr_results = <<>>
    /\ rr_yields = <<>>

\* community.dispersy_yield_introduce_candidates(candidate): a new
\* invocation; the iterator of the overlay stays where it is
YieldIntroduceCandidates(candidate) ==
    /\ rr_candidate' = candidate
    /\ rr_prev_result' = "None"
    /\ rr_results' = <<>>
    /\ rr_yields' = <<>>
    /\ UNCHANGED <<rr_candidates, rr_index, nonRrVars>>

\* Another invocation, which shares _walked_stumbled_candidates with this
\* one, takes an item of the iterator while this one is suspended.
OtherInvocationConsumes ==
    /\ rr_candidates # <<>>
    /\ rr_index' = iter_categories_next(rr_candidates, rr_index).index
    /\ UNCHANGED <<rr_candidates, rr_candidate, rr_prev_result, rr_results, rr_yields, nonRrVars>>

\* the caller takes the next candidate of the invocation
NextIntroduceCandidate ==
    /\ Len(rr_yields) < MaxIntroduced
    /\ LET r == introduce_candidates_next(rr_candidates, rr_index, rr_candidate,
                                          rr_prev_result, rr_results)
       IN /\ rr_index' = r.index
          /\ rr_prev_result' = r.prev_result
          /\ rr_results' = r.results
          /\ rr_yields' = Append(rr_yields, r.yield)
    /\ UNCHANGED <<rr_candidates, rr_candidate, nonRrVars>>


(***************************************************************************)
(* tool/tracker.py: the persistent storage file, written by                *)
(* dispersy_cleanup_community and read by _load_persistent_storage.        *)
(***************************************************************************)
\* the proofs timeline.check can return for one message, in order
StProofLists == {<<>>, <<"auth1">>, <<"auth2">>, <<"auth1", "auth2">>, <<"auth2", "auth1">>}

StMembers == {"master", "member"}

\* every proof graph over the messages of the chain, acyclic or not, with
\* every choice of the members whose dispersy-identity is in sync
StSnapshots ==
    {[proofs |-> proofs, author |-> ChainAuthor, identities |-> identities] :
        proofs \in [ChainMessages -> StProofLists], identities \in SUBSET StMembers}

\* every packet that can be in the file of overlay X
StAllPackets ==
    {Packet("X", m) : m \in ChainMessages} \cup {IdentityPacket("X", member) : member \in StMembers}

\* the packet that was given to write for a line
StRawPacket(line) == CHOOSE packet \in StAllPackets : encode_HEX(packet) = line.hex

decode_HEX_LowNibble(hex) ==
    [i \in 1..(Len(hex) \div 2) |-> hex[2 * i]]

\* str.decode("HEX"): one byte for every two hexadecimal digits
decode_HEX(hex) ==
    [i \in 1..(Len(hex) \div 2) |-> hex[2 * i - 1] * 16 + hex[2 * i]]

\* not line.startswith("#")
StNotComment(line) == line.name # "#"

\* reversed(packets)
Reverse(s) == [i \in 1..Len(s) |-> s[Len(s) + 1 - i]]

\* _load_persistent_storage: the list packets; an IOError of open (no
\* file) is passed over and nothing is loaded
load_persistent_storage(exists, file) ==
    IF ~ exists THEN <<>>
    ELSE LET lines == SelectSeq(file, StNotComment)
         IN [i \in 1..Len(lines) |-> decode_HEX(lines[i].hex)]

StEvent(op, result) == [op |-> op, result |-> result]

StInit ==
    /\ st_snap \in StSnapshots
    /\ st_exists = FALSE
    /\ st_file = <<>>
    /\ st_killed = FALSE
    /\ st_restarts = 0
    /\ st_last_written = <<>>
    /\ st_packets = <<>>
    /\ st_loaded = <<>>
    /\ st_fed = <<>>
    /\ st_event = StEvent("start", "")

StIdle ==
    /\ st_snap = TrackerSnapshot("X")
    /\ st_exists = FALSE
    /\ st_file = <<>>
    /\ st_killed = FALSE
    /\ st_restarts = 0
    /\ st_last_written = <<>>
    /\ st_packets = <<>>
    /\ st_loaded = <<>>
    /\ st_fed = <<>>
    /\ st_event = StEvent("start", "")

\* the lines without the comment line, as packets
StPacketsOf(lines) ==
    LET kept == SelectSeq(lines, StNotComment)
    IN [i \in 1..Len(kept) |-> StRawPacket(kept[i])]

\* A dispersy-destroy-community message for the live overlay X arrives
\* from a peer: dispersy_cleanup_community appends to the file (open with
\* "a+" creates it) and the overlay becomes hard-killed.
StorageCleanup ==
    /\ ~ st_killed
    /\ LET c == dispersy_cleanup_community("X", "peer", "hard-kill", st_snap)
       IN /\ st_file' = st_file \o c.written
          /\ st_last_written' = c.written
          /\ st_packets' = st_packets \o StPacketsOf(c.written)
    /\ st_exists' = TRUE
    /\ st_killed' = TRUE
    /\ st_event' = StEvent("cleanup", "")
    /\ UNCHANGED <<st_snap, st_restarts, st_loaded, st_fed, nonStVars>>

\* The tracker is restarted with its in-memory database empty and
\* _load_persistent_storage runs: the packets of the file go to the engine
\* in reverse order.  The destroy message among them is handled as one that
\* arrives from the network: the overlay, auto-joined by the packets before
\* it, is cleaned up, which appends to the file again.  Later packets go to
\* the hard-killed overlay.
StorageRestart ==
    /\ st_restarts < MaxRestarts
    /\ st_restarts' = st_restarts + 1
    /\ LET packets == load_persistent_storage(st_exists, st_file)
           fed == Reverse(packets)
           destroys == \E i \in 1..Len(fed) : fed[i] = Packet("X", DestroyMessage)
           c == dispersy_cleanup_community("X", "loopback", "hard-kill", st_snap)
       IN /\ st_loaded' = packets
          /\ st_fed' = fed
          /\ st_killed' = destroys
          /\ IF destroys
             THEN /\ st_file' = st_file \o c.written
                  /\ st_last_written' = c.written
                  /\ st_packets' = st_packets \o StPacketsOf(c.written)
             ELSE UNCHANGED <<st_file, st_last_written, st_packets>>
    /\ st_event' = StEvent("load", "")
    /\ UNCHANGED <<st_snap, st_exists, nonStVars>>


(***************************************************************************)
(* tool/tracker.py: TrackerCommunity.get_conversion and the table of       *)
(* conversions it fills.                                                   *)
(***************************************************************************)
\* the prefixes of a packet: dispersy version byte and community version
\* byte; the community identifier that follows them is the overlay's own,
\* because the overlay is looked up by it before get_conversion is called
ConvPrefixes ==
    {<<dispersy_version, community_version>> :
        dispersy_version \in 0..1, community_version \in 0..MaxVersion}

\* get_conversion(prefix=None)
None == <<>>

\* the table has no key None
NoConversion == [version |-> 0 - 1, made_for |-> None]

\* BinaryTrackerConversion(self, community_version): a new object, told
\* apart from every other by the key it was made for
BinaryTrackerConversion(community_version, made_for) ==
    [version |-> community_version, made_for |-> made_for]

\* the default is kept when a conversion with a lower version is created
get_conversion_default_Lowest(default, created) ==
    IF default # NoConversion
    THEN IF default.version > created.version THEN created ELSE default
    ELSE created

\* "use highest version as default"
get_conversion_default(default, created) ==
    IF default # NoConversion
    THEN IF default.version < created.version THEN created ELSE default
    ELSE created

\* get_conversion: the table, the default, what was raised and what was
\* returned
get_conversion(conversions, default, prefix) ==
    IF IF prefix = None THEN default # NoConversion ELSE prefix \in DOMAIN conversions
    THEN [conversions |-> conversions, default |-> default, raised |-> "",
          result |-> IF prefix = None THEN default ELSE conversions[prefix]]
    ELSE IF prefix = None
    THEN \* prefix[0] of None
         [conversions |-> conversions, default |-> default, raised |-> "TypeError",
          result |-> NoConversion]
    ELSE IF prefix[1] = 0
    THEN LET created == BinaryTrackerConversion(prefix[2], prefix)
             table == [p \in DOMAIN conversions \cup {prefix} |->
                          IF p = prefix THEN created ELSE conversions[p]]
         IN  [conversions |-> table, default |-> get_conversion_default(default, created),
              raised |-> "", result |-> created]
    ELSE [conversions |-> conversions, default |-> default, raised |-> "KeyError",
          result |-> NoConversion]

\* after Community.__init__: the conversion of initiate_conversions is in
\* the table under its prefix and is the default
ConvInit ==
    LET initial == BinaryTrackerConversion(0, <<0, 0>>)
    IN  /\ conv_conversions = [p \in {<<0, 0>>} |-> initial]
        /\ conv_default = initial
        /\ conv_created = {}
        /\ conv_event = [prefix |-> None, raised |-> "", result |-> initial]

GetConversion(prefix) ==
    LET r == get_conversion(conv_conversions, conv_default, prefix)
    IN  /\ conv_conversions' = r.conversions
        /\ conv_default' = r.default
        /\ conv_created' =
              IF DOMAIN r.conversions # DOMAIN conv_conversions
              THEN conv_created \cup {r.result} ELSE conv_created
        /\ conv_event' = [prefix |-> prefix, raised |-> r.raised, result |-> r.result]
        /\ UNCHANGED nonConvVars

(***************************************************************************)
(* The specifications.                                                     *)
(***************************************************************************)
\* The tracker variables while another specification runs.
TrackerIdle == TrackerInit /\ silent = FALSE

Init == TrackerInit /\ PruningIdle /\ TextIdle /\ SeqIdle /\ LastIdle /\ DynIdle /\ DblIdle /\ ClkIdle /\ CbIdle /\ SchIdle /\ IntroIdle /\ ChatIdle /\ ImplIdle /\ WalkIdle /\ RrIdle /\ StIdle /\ ConvInit

Next ==
    \/ UnloadCommunities
    \/ \E cid \in CIDs : GetCommunity(cid)
    \/ \E cand \in Senders, cid \in CIDs, base \in {"message", "DropMessage"} :
          IntroductionRequest(cand, cid, base)
    \/ \E cand \in WalkCandidates, cid \in CIDs, payload \in {"soft-kill", "hard-kill"} :
          DestroyCommunity(cand, cid, payload, TrackerSnapshot(cid))
    \/ \E cid \in CIDs : BatchArrive(cid)
    \/ \E cid \in CIDs : BatchProcess(cid)
    \/ \E cand \in WalkCandidates, cid \in CIDs : CandidateTimeout(cand, cid)

Spec == Init /\ [][Next]_vars

InitPruning == TrackerIdle /\ PruningInit /\ TextIdle /\ SeqIdle /\ LastIdle /\ DynIdle /\ DblIdle /\ ClkIdle /\ CbIdle /\ SchIdle /\ IntroIdle /\ ChatIdle /\ ImplIdle /\ WalkIdle /\ RrIdle /\ StIdle /\ ConvInit

NextPruning ==
    \/ PruningCreateMessage
    \/ \E t \in 1..MaxGlobalTime : PruningReceiveMessage(t)
    \/ \E t \in 1..MaxGlobalTime : PruningAdvanceGlobalTime(t)
    \/ PruningGetState

SpecPruning == InitPruning /\ [][NextPruning]_vars

InitText == TrackerIdle /\ PruningIdle /\ TextInit /\ SeqIdle /\ LastIdle /\ DynIdle /\ DblIdle /\ ClkIdle /\ CbIdle /\ SchIdle /\ IntroIdle /\ ChatIdle /\ ImplIdle /\ WalkIdle /\ RrIdle /\ StIdle /\ ConvInit

NextText ==
    \/ \E store \in BOOLEAN, update \in BOOLEAN : CreateFullSyncText(store, update)
    \/ \E store \in BOOLEAN, update \in BOOLEAN : CreateProtectedFullSyncText(store, update)
    \/ \E meta \in TextMetas, member \in TextMembers, global_time \in 1..MaxGlobalTime :
          ReceiveText(meta, member, global_time)
    \/ \E message \in text_delayed : ProofArrives(message)
    \/ \E message \in text_delayed : DelayTimeout(message)
    \/ \E member \in TextMembers, permission \in {"authorize", "revoke"} :
          TimelineUpdate(member, permission)

SpecText == InitText /\ [][NextText]_vars

InitSequence == TrackerIdle /\ PruningIdle /\ TextIdle /\ SeqInit /\ LastIdle /\ DynIdle /\ DblIdle /\ ClkIdle /\ CbIdle /\ SchIdle /\ IntroIdle /\ ChatIdle /\ ImplIdle /\ WalkIdle /\ RrIdle /\ StIdle /\ ConvInit

NextSequence ==
    \/ \E store \in BOOLEAN : CreateSequenceText(store)
    \/ SequenceSetup

SpecSequence == InitSequence /\ [][NextSequence]_vars

NextSequenceInbound ==
    \/ \E n \in 1..MaxInbound : ReceiveSequenceText(n)
    \/ \E n \in 1..MaxInbound : SeqBufferTimeout(n)

SpecSequenceInbound == InitSequence /\ [][NextSequenceInbound]_vars


InitLastSync == TrackerIdle /\ PruningIdle /\ TextIdle /\ SeqIdle /\ LastInit /\ DynIdle /\ DblIdle /\ ClkIdle /\ CbIdle /\ SchIdle /\ IntroIdle /\ ChatIdle /\ ImplIdle /\ WalkIdle /\ RrIdle /\ StIdle /\ ConvInit

NextLastSync == \E row \in LastArrivals : LastSyncInsert(row)

SpecLastSync == InitLastSync /\ [][NextLastSync]_vars


InitDynamic == TrackerIdle /\ PruningIdle /\ TextIdle /\ SeqIdle /\ LastIdle /\ DynInit /\ DblIdle /\ ClkIdle /\ CbIdle /\ SchIdle /\ IntroIdle /\ ChatIdle /\ ImplIdle /\ WalkIdle /\ RrIdle /\ StIdle /\ ConvInit

NextDynamic ==
    \/ \E t \in DynTimes : \E i \in 1..Len(DynamicVariants) :
          DynamicSettings(t, DynamicVariants[i])
    \/ \E member \in DynMembers : \E t \in DynTimes :
          ReceiveDynamicResolutionText(member, t)

SpecDynamic == InitDynamic /\ [][NextDynamic]_vars


InitDoubleSigned == TrackerIdle /\ PruningIdle /\ TextIdle /\ SeqIdle /\ LastIdle /\ DynIdle /\ DblInit /\ ClkIdle /\ CbIdle /\ SchIdle /\ IntroIdle /\ ChatIdle /\ ImplIdle /\ WalkIdle /\ RrIdle /\ StIdle /\ ConvInit

NextDoubleSigned ==
    \/ \E text \in DoubleSignedTexts : CreateDoubleSignedText(text)
    \/ \E id \in 1..MaxRequests :
          \/ ReceiveSignatureRequest(id)
          \/ ReceiveSignatureResponse(id)
          \/ SignatureRequestTimeout(id)
          \/ SignaturePacketLost(id)

SpecDoubleSigned == InitDoubleSigned /\ [][NextDoubleSigned]_vars


InitClock == TrackerIdle /\ PruningIdle /\ TextIdle /\ SeqIdle /\ LastIdle /\ DynIdle /\ DblIdle /\ ClkInit /\ CbIdle /\ SchIdle /\ IntroIdle /\ ChatIdle /\ ImplIdle /\ WalkIdle /\ RrIdle /\ StIdle /\ ConvInit

NextClock ==
    \/ \E meta \in ClaimingMetas : CreateWithClaimedGlobalTime(meta)
    \/ CreateDoubleSignedTextMessage
    \/ \E t \in 1..MaxGlobalTime : ClockFollows(t)

SpecClock == InitClock /\ [][NextClock]_vars


InitCallback == TrackerIdle /\ PruningIdle /\ TextIdle /\ SeqIdle /\ LastIdle /\ DynIdle /\ DblIdle /\ ClkIdle /\ CbInit /\ SchIdle /\ IntroIdle /\ ChatIdle /\ ImplIdle /\ WalkIdle /\ RrIdle /\ StIdle /\ ConvInit

NextCallback ==
    \/ BodyRaises
    \/ BodyRegisters
    \/ TaskRuns
    \/ BodyCalls
    \/ InlineTaskRuns
    \/ BodyResumes
    \/ BodyLoops
    \/ LoopTaskRuns
    \/ StopReturns
    \/ TearDown

SpecCallback == InitCallback /\ [][NextCallback]_vars


InitScheduler == TrackerIdle /\ PruningIdle /\ TextIdle /\ SeqIdle /\ LastIdle /\ DynIdle /\ DblIdle /\ ClkIdle /\ CbIdle /\ SchInit /\ IntroIdle /\ ChatIdle /\ ImplIdle /\ WalkIdle /\ RrIdle /\ StIdle /\ ConvInit

NextScheduler ==
    \/ \E priority \in SchPriorities : SchRegister(priority)
    \/ SchRun

SpecScheduler == InitScheduler /\ [][NextScheduler]_vars


InitIntroduction == TrackerIdle /\ PruningIdle /\ TextIdle /\ SeqIdle /\ LastIdle /\ DynIdle /\ DblIdle /\ ClkIdle /\ CbIdle /\ SchIdle /\ IntroInit /\ ChatIdle /\ ImplIdle /\ WalkIdle /\ RrIdle /\ StIdle /\ ConvInit

NextIntroduction ==
    \E messages \in IntroBatches(MaxIntroBatch) : IntroductionRequestBatch(messages)

SpecIntroduction == InitIntroduction /\ [][NextIntroduction]_vars


InitChat == TrackerIdle /\ PruningIdle /\ TextIdle /\ SeqIdle /\ LastIdle /\ DynIdle /\ DblIdle /\ ClkIdle /\ CbIdle /\ SchIdle /\ IntroIdle /\ ChatInit /\ ImplIdle /\ WalkIdle /\ RrIdle /\ StIdle /\ ConvInit

NextChat ==
    \/ create_text
    \/ \E messages \in BegPermissionBatches(MaxChatBatch) : ReceiveBegPermission(messages)
    \/ \E op \in {"authorize", "revoke"}, permission \in ChatPermissions : ChatTimelineUpdate(op, permission)

SpecChat == InitChat /\ [][NextChat]_vars


InitConstruct == TrackerIdle /\ PruningIdle /\ TextIdle /\ SeqIdle /\ LastIdle /\ DynIdle /\ DblIdle /\ ClkIdle /\ CbIdle /\ SchIdle /\ IntroIdle /\ ChatIdle /\ ImplInit /\ WalkIdle /\ RrIdle /\ StIdle /\ ConvInit

NextConstruct ==
    \E meta \in ImplMetas, global_time \in ImplGlobalTimes, sequence_number \in ImplSequenceNumbers :
        ConstructFullSync(meta, global_time, sequence_number)

SpecConstruct == InitConstruct /\ [][NextConstruct]_vars


NextConsole ==
    \/ Next
    \/ ReportStatistics
    \/ \E cand \in Senders, cid \in CIDs : ConvertPacketsIntoBatch(cand, cid)

SpecConsole == Init /\ [][NextConsole]_vars


InitWalk == TrackerIdle /\ PruningIdle /\ TextIdle /\ SeqIdle /\ LastIdle /\ DynIdle /\ DblIdle /\ ClkIdle /\ CbIdle /\ SchIdle /\ IntroIdle /\ ChatIdle /\ ImplIdle /\ WalkInit /\ RrIdle /\ StIdle /\ ConvInit

NextWalk ==
    \E community \in CIDs, destination \in WalkDestinations, allow_sync \in BOOLEAN, forward \in BOOLEAN :
        CreateIntroductionRequest(community, destination, allow_sync, forward)

SpecWalk == InitWalk /\ [][NextWalk]_vars


InitIntroduce == TrackerIdle /\ PruningIdle /\ TextIdle /\ SeqIdle /\ LastIdle /\ DynIdle /\ DblIdle /\ ClkIdle /\ CbIdle /\ SchIdle /\ IntroIdle /\ ChatIdle /\ ImplIdle /\ WalkIdle /\ RrInit /\ StIdle /\ ConvInit

NextIntroduce ==
    \/ \E candidate \in RrCandidates \cup {"None"} : YieldIntroduceCandidates(candidate)
    \/ NextIntroduceCandidate

SpecIntroduce == InitIntroduce /\ [][NextIntroduce]_vars


InitStorage == TrackerIdle /\ PruningIdle /\ TextIdle /\ SeqIdle /\ LastIdle /\ DynIdle /\ DblIdle /\ ClkIdle /\ CbIdle /\ SchIdle /\ IntroIdle /\ ChatIdle /\ ImplIdle /\ WalkIdle /\ RrIdle /\ StInit /\ ConvInit

NextStorage ==
    \/ StorageCleanup
    \/ StorageRestart

SpecStorage == InitStorage /\ [][NextStorage]_vars


NextIntroduceShared ==
    \/ NextIntroduce
    \/ OtherInvocationConsumes

SpecIntroduceShared == InitIntroduce /\ [][NextIntroduceShared]_vars


InitConversion == TrackerIdle /\ PruningIdle /\ TextIdle /\ SeqIdle /\ LastIdle /\ DynIdle /\ DblIdle /\ ClkIdle /\ CbIdle /\ SchIdle /\ IntroIdle /\ ChatIdle /\ ImplIdle /\ WalkIdle /\ RrIdle /\ StIdle /\ ConvInit

NextConversion == \E prefix \in ConvPrefixes \cup {None} : GetConversion(prefix)

SpecConversion == InitConversion /\ [][NextConversion]_vars

(***************************************************************************)
(* Properties of the tracker.                                              *)
(***************************************************************************)
\* whether some candidate of the candidate table is active for the overlay
HasActiveCandidate(cid) == \E candidate \in WalkCandidates : is_active(candidate, cid)

LoadedLive(cid) == cid \in DOMAIN communities /\ communities[cid].cls = TrackerCommunity

LoadedKilled(cid) ==
    cid \in DOMAIN communities /\ communities[cid].cls = TrackerHardKilledCommunity

\* C1: at every tick, update_strikes of a loaded live overlay sets strikes to
\* 0 when a candidate is active for the overlay and otherwise adds exactly 1;
\* so in every state the strikes of a loaded live overlay equal the number of
\* most recent consecutive ticks at which it had no active candidate.
C1_StrikesCountIdleTicks ==
    /\ [](\A cid \in CIDs :
            LoadedLive(cid) => communities[cid].strikes = no_candidate_ticks[cid])
    /\ [][(event'.op = "tick" /\ UnloadCommunities) =>
            \A cid \in CIDs :
               (LoadedLive(cid) /\ cid \in DOMAIN communities') =>
                  communities'[cid].strikes =
                     IF HasActiveCandidate(cid) THEN 0 ELSE communities[cid].strikes + 1]_vars

C1_Witness ==
    \E cid \in CIDs :
       /\ LoadedLive(cid)
       /\ communities[cid].strikes = 2
       /\ no_candidate_ticks[cid] = 2
       /\ \E other \in CIDs \ {cid} : LoadedLive(other) /\ communities[other].strikes = 0

\* C2: an overlay that goes through 3 consecutive ticks with no active
\* candidate, the batch cache holding none of its metas, is unloaded at the
\* third of them, and not at the first or the second of them.
C2_UnloadedAtThirdIdleTick ==
    [][(event'.op = "tick" /\ UnloadCommunities) =>
         \A cid \in DOMAIN communities :
            (~ HasActiveCandidate(cid) /\ cid \notin batch_cache) =>
               IF no_candidate_ticks[cid] + 1 >= 3
               THEN cid \notin DOMAIN communities'
               ELSE cid \in DOMAIN communities']_vars

\* C3: no loaded overlay, live or hard-killed, is unloaded at a tick at which
\* a candidate is active for it: the active candidate resets its strikes to 0.
C3_ActiveCandidateResetsStrikes ==
    [][(event'.op = "tick" /\ UnloadCommunities) =>
         \A cid \in DOMAIN communities :
            HasActiveCandidate(cid) =>
               cid \in DOMAIN communities' /\ communities'[cid].strikes = 0]_vars

\* C4: an overlay is never unloaded at a tick at which the batch cache holds
\* a meta-message of that overlay, whatever its strike counter.
C4_CachedOverlayStaysLoaded ==
    [][(event'.op = "tick" /\ UnloadCommunities) =>
         \A cid \in DOMAIN communities :
            cid \in batch_cache => cid \in DOMAIN communities']_vars

C4_Witness ==
    \E cid \in DOMAIN communities :
       communities[cid].strikes >= StrikeLimit /\ cid \in batch_cache

HasTag(lines, tag) == \E i \in 1..Len(lines) : lines[i].tag = tag

RECURSIVE ProofClosure(_, _)
ProofClosure(snap, S) ==
    LET T == S \cup {p \in ChainMessages :
                       \E m \in S : \E i \in 1..Len(snap.proofs[m]) : snap.proofs[m][i] = p}
    IN IF T = S THEN S ELSE ProofClosure(snap, T)

\* C6: when a live overlay receives a dispersy-destroy-community, for a
\* soft-kill as for a hard-kill payload, dispersy_cleanup_community prints
\* one DESTROY_IN line, appends to the storage file a comment line, the
\* destroy message and every message of its proof chain, and the overlay
\* becomes a TrackerHardKilledCommunity.
C6_DestroyCleansUpAndHardKills ==
    [][event'.op = "destroy-community" =>
         \A cand \in WalkCandidates, cid \in CIDs, payload \in {"soft-kill", "hard-kill"} :
            (/\ TrackerDispersy_get_community(cid).comms[cid].cls = TrackerCommunity
             /\ DestroyCommunity(cand, cid, payload, TrackerSnapshot(cid))) =>
               /\ printed' = <<PrintLine("DESTROY_IN", cid, cand)>>
               /\ Len(storage') >= Len(storage) + 2
               /\ SubSeq(storage', 1, Len(storage)) = storage
               /\ storage'[Len(storage) + 1] = CommentLine
               /\ storage'[Len(storage) + 2] =
                     Line("dispersy-destroy-community",
                          encode_HEX(Packet(cid, DestroyMessage)))
               /\ {storage'[i].hex : i \in {j \in (Len(storage) + 2)..Len(storage') :
                                               storage'[j].name # "dispersy-identity"}}
                    = {encode_HEX(Packet(cid, m)) :
                          m \in ProofClosure(TrackerSnapshot(cid), {DestroyMessage})}
               /\ LoadedKilled(cid)'
               /\ communities'[cid].strikes = 0]_vars

C6_Witness ==
    \E cid \in CIDs :
       /\ printed = <<PrintLine("DESTROY_IN", cid, "peer")>>
       /\ LoadedKilled(cid)
       /\ Len(storage) >= 4
       /\ storage[Len(storage)].name = "dispersy-authorize"

\* C7: hard kill is terminal: once a dispersy-destroy-community was received
\* for X, the tracker never again holds a live TrackerCommunity for X,
\* whatever ticks (also ones that unload the hard-killed overlay) and packets
\* follow.
C7_HardKillIsTerminal ==
    \A cid \in destroyed : ~ LoadedLive(cid) /\ classification[cid] = TrackerHardKilledCommunity

C7_Witness ==
    \E cid \in destroyed :
       /\ cid \notin DOMAIN communities
       /\ \E other \in destroyed \ {cid} : LoadedKilled(other) /\ communities[other].strikes = 1

\* C8: get_community(cid) never ends with KeyError, and afterwards an overlay
\* for cid is loaded; when the base get_community could load none, it is a
\* new TrackerCommunity with strikes 0.
C8_GetCommunityAutoJoins ==
    [][\A cid \in CIDs :
          (event'.op = "get_community" /\ GetCommunity(cid)) =>
             /\ event'.result = ""
             /\ cid \in DOMAIN communities'
             /\ Dispersy_get_community(cid).raised =>
                   communities'[cid] = [cls |-> TrackerCommunity, strikes |-> 0]]_vars

C8_Witness ==
    \E cid \in CIDs :
       /\ LoadedLive(cid)
       /\ communities[cid].strikes = 0
       /\ \A cand \in WalkCandidates : candidate_active[cand] = {}
       /\ event = Event("get_community", "")
       /\ destroyed = {}

(***************************************************************************)
(* Properties of the pruning policies.                                     *)
(***************************************************************************)
\* C9: for a message under GlobalTimePruning(inactive, pruned) exactly one
\* of is_active, is_inactive and is_pruned holds, get_state is "active" iff
\* overlay.global_time - msg.global_time < inactive, "inactive" iff that
\* difference is in [inactive, pruned) and "pruned" iff it is >= pruned;
\* get_state never raises RuntimeError, and under NoPruning it is "active".
C9_PruningStateIsExactlyOne ==
    distribution_global_time > 0 =>
       LET d == community_global_time - distribution_global_time
           state == get_state(pruning, community_global_time, distribution_global_time)
           holding == {n \in {"active", "inactive", "pruned"} :
                         \/ n = "active" /\ Pruning_is_active(pruning, community_global_time,
                                                              distribution_global_time)
                         \/ n = "inactive" /\ Pruning_is_inactive(pruning, community_global_time,
                                                                  distribution_global_time)
                         \/ n = "pruned" /\ Pruning_is_pruned(pruning, community_global_time,
                                                              distribution_global_time)}
       IN /\ Cardinality(holding) = 1
          /\ state # "RuntimeError"
          /\ pruning_state \in {"none", state}
          /\ pruning.kind = "NoPruning" => state = "active"
          /\ pruning.kind = "GlobalTimePruning" =>
                /\ 0 < pruning.inactive_threshold
                /\ pruning.inactive_threshold < pruning.prune_threshold
                /\ (state = "active") = (d < pruning.inactive_threshold)
                /\ (state = "inactive") =
                      (pruning.inactive_threshold <= d /\ d < pruning.prune_threshold)
                /\ (state = "pruned") = (d >= pruning.prune_threshold)

C9_Witness ==
    /\ pruning.kind = "GlobalTimePruning"
    /\ community_global_time - distribution_global_time = pruning.inactive_threshold
    /\ pruning_state = "inactive"

(***************************************************************************)
(* Properties of the text metas.                                           *)
(***************************************************************************)
\* C10: every message admitted through the pipeline of a text meta (stored,
\* or passed to on_text) had timeline.check return allowed for it, also the
\* messages create_protected_full_sync_text hands to store_update_forward;
\* a message the check does not allow is delayed, never stored or handled.
C10_AdmittedTextWasAllowed ==
    /\ \A message \in text_sync \cup text_handled : message \in text_allowed
    /\ \A message \in text_delayed : message \notin text_allowed

(***************************************************************************)
(* Properties of the sequence numbers.                                     *)
(***************************************************************************)
\* C11: successive claim_sequence_number calls return consecutive integers,
\* the first being one more than the number of my_member's messages setup
\* found in sync; the sequence numbers my_member's messages carry are
\* exactly 1..k, with no gap.
C11_ClaimedSequenceIsDense ==
    /\ seq_issued = [i \in 1..Len(seq_issued) |-> seq_setup_count + i]
    /\ current_sequence_number = seq_setup_count + Len(seq_issued)
    /\ seq_all_issued = 1..Cardinality(seq_all_issued)
    /\ SeqNumbers(seq_sync, "me") \subseteq seq_all_issued

C11_Witness ==
    /\ seq_setup_count = 1
    /\ seq_issued = <<2, 3>>
    /\ SeqNumbers(seq_sync, "me") = {1, 3}

C13_LastSyncKeepsHighest ==
    /\ \A row \in last_inserted :
           LET stored == LastRowsOf(last_sync, row.meta, row.member)
               all == LastRowsOf(last_inserted, row.meta, row.member)
               N == IF row.meta = "last-1-test" THEN 1 ELSE 9
           IN  /\ Cardinality(stored) <= N
               /\ stored = LastHighest(all, N)
    /\ last_sync \subseteq last_inserted
    /\ \A m \in {"A", "B"} :
           (LastRowsOf(last_inserted, "last-1-test", m)
                = {LastRow("last-1-test", m, t) : t \in {5, 3, 7}})
               => (LastRowsOf(last_sync, "last-1-test", m) = {LastRow("last-1-test", m, 7)})

C13_Witness ==
    /\ LastRowsOf(last_inserted, "last-1-test", "A")
           = {LastRow("last-1-test", "A", t) : t \in {5, 3, 7}}
    /\ LastRowsOf(last_sync, "last-1-test", "A") = {LastRow("last-1-test", "A", 7)}
    /\ Cardinality(LastRowsOf(last_inserted, "last-9-test", "A")) = 10
    /\ Cardinality(LastRowsOf(last_sync, "last-9-test", "A")) = 9


(***************************************************************************)
(* Properties of dynamic-resolution-text.                                  *)
(***************************************************************************)
\* C14: a dynamic-resolution-text message is checked under the variant set
\* by the last dispersy-dynamic-settings event at or before its global
\* time, and under Public when there is no such event: it is admitted
\* exactly when that variant is Public or its member is authorized.  With a
\* switch to Linear at global time 10 in the timeline, unauthorized A's
\* message at 9 is admitted and its message at 11 is not.
C14_DynamicResolutionByGlobalTime ==
    [][\A message \in (dyn_sync' \cup dyn_delayed') \ (dyn_sync \cup dyn_delayed) :
          LET before == {e \in dyn_policies : e.global_time <= message.global_time}
              last == {e \in before : \A f \in before : f.global_time <= e.global_time}
              applied == IF before = {} THEN {"PublicResolution"}
                         ELSE {e.policy : e \in last}
          IN /\ (message \in dyn_sync')
                    <=> (applied = {"PublicResolution"} \/ message.member = "M")
             /\ (dyn_policies = {DynPolicyEvent(10, "LinearResolution")}
                    /\ message = DynMessage("A", 9)) => message \in dyn_sync'
             /\ (dyn_policies = {DynPolicyEvent(10, "LinearResolution")}
                    /\ message = DynMessage("A", 11)) => message \notin dyn_sync'
      ]_vars

C14_Witness ==
    /\ dyn_policies = {DynPolicyEvent(10, "LinearResolution")}
    /\ dyn_sync = {DynMessage("A", 9)}
    /\ dyn_delayed = {DynMessage("A", 11)}


(***************************************************************************)
(* Properties of double-signed-text.                                       *)
(***************************************************************************)
\* C15: B countersigns a request of A exactly when its text is
\* 'Allow=True' (allow_double_signed_text returns true); for a request with
\* 'Allow=False' B never signs and A never admits a twice-signed message.
C15_CountersignIffAllowed ==
    /\ \A id \in dbl_seen :
           (id \in dbl_signed) <=> (dbl_requests[id].text = "Allow=True")
    /\ dbl_signed \subseteq dbl_seen
    /\ \A id \in 1..Len(dbl_requests) :
           dbl_requests[id].text = "Allow=False" =>
               /\ id \notin dbl_signed
               /\ id \notin dbl_net_response
               /\ id \notin dbl_admitted
               /\ dbl_requests[id].state # "admitted"

C15_Witness ==
    /\ Len(dbl_requests) = 2
    /\ dbl_requests[1] = DblRequest("Allow=True", "admitted")
    /\ dbl_requests[2] = DblRequest("Allow=False", "timeout")
    /\ dbl_seen = {1, 2}
    /\ dbl_signed = {1}
    /\ dbl_admitted = {1}


(***************************************************************************)
(* Properties of the global time of created messages.                      *)
(***************************************************************************)
\* C16: the messages the create_* operations of one overlay build, the one
\* of create_double_signed_text included, carry a claimed global time: the
\* global times of successively created messages are strictly increasing,
\* so no two created messages share one.
C16_CreatedGlobalTimesIncrease ==
    \A i, j \in 1..Len(clk_created) :
        i < j => clk_created[i].global_time < clk_created[j].global_time


(***************************************************************************)
(* Properties of the callback engine under the tests.                      *)
(***************************************************************************)
\* C17: with strict mode enabled, an AssertionError or KeyError raised in a
\* task submitted with callback.register (a plain function, or a generator
\* after its yields) invokes the exception hook, is fatal and triggers
\* shutdown (Dispersy.stop is called, once); the test method, suspended at
\* its yield, gets RuntimeError('Early shutdown') there and never runs the
\* statement after the yield.
C17_StrictRegisteredExceptionIsFatal ==
    (cb_test.strict /\ cb_test.submit = "register") =>
        /\ ~ cb_past_yield
        /\ cb_body.pc \in {"start", "yield", "killed"}
        /\ cb_task.pc = "raised" =>
               /\ cb_hook = << [exception |-> Exc(cb_test.exception, "This must fail"),
                                fatal |-> TRUE] >>
               /\ ~ cb_dispersy
               /\ cb_engine \in {"stopping", "stopped"}
               /\ Len(cb_stop_returned) + (IF cb_engine = "stopping" THEN 1 ELSE 0) = 1
        /\ cb_task.pc # "raised" => cb_hook = <<>> /\ cb_engine = "running"
        /\ cb_engine = "stopped" =>
               /\ cb_body.pc = "killed"
               /\ cb_caller = CbCaller("raised", Exc("RuntimeError", "Early shutdown"))
        /\ cb_caller.status # "pending" => cb_engine = "stopped"

C17_Witness ==
    /\ cb_test = CbTest(TRUE, "register", "KeyError", 2)
    /\ cb_phase = "finished"
    /\ cb_body.pc = "killed"
    /\ cb_caller = CbCaller("raised", Exc("RuntimeError", "Early shutdown"))
    /\ Len(cb_hook) = 1 /\ cb_hook[1].fatal

\* C18: with strict mode disabled, an AssertionError or KeyError raised in
\* a task submitted with callback.register (plain or generator) is ignored:
\* the hook reports it as not fatal, nothing is shut down or stopped while
\* the test runs, the test method runs on past its yield and returns, and
\* the stop of tearDown returns True.
C18_NonStrictRegisteredExceptionIsIgnored ==
    (~ cb_test.strict /\ cb_test.submit = "register") =>
        /\ \A i \in 1..Len(cb_hook) :
               cb_hook[i] = [exception |-> Exc(cb_test.exception, "This must be ignored"),
                             fatal |-> FALSE]
        /\ Len(cb_hook) = (IF cb_task.pc = "raised" THEN 1 ELSE 0)
        /\ cb_phase = "test" =>
               /\ cb_engine = "running"
               /\ cb_dispersy
               /\ cb_stop_returned = <<>>
        /\ cb_body.pc \in {"start", "yield", "done"}
        /\ cb_task.pc \in {"none", "registered", "raised"}
        /\ cb_caller \in {CbCaller("pending", NoException), CbCaller("returned", NoException)}
        /\ cb_phase # "test" => cb_past_yield /\ cb_body.pc = "done" /\ cb_task.pc = "raised"
        /\ \A i \in 1..Len(cb_stop_returned) : cb_stop_returned[i].result
        /\ cb_phase = "finished" => cb_stop_result /\ Len(cb_stop_returned) = 1

C18_Witness ==
    /\ cb_test = CbTest(FALSE, "register", "AssertionError", 2)
    /\ cb_phase = "finished"
    /\ cb_past_yield
    /\ cb_stop_result
    /\ Len(cb_hook) = 1 /\ ~ cb_hook[1].fatal
    /\ cb_engine = "stopped"

\* C19: an exception raised by a task run through callback.call (the test
\* method itself, or the task it calls; a plain function or a generator
\* after its yields) reaches the caller of call with the same type and
\* message, with strict mode enabled or disabled, and the caller does not
\* go on past the call.
C19_CallDeliversException ==
    (cb_test.submit \in {"call", "inline"}) =>
        /\ cb_caller.status # "pending" =>
               cb_caller = CbCaller("raised", Exc(cb_test.exception, "This must fail"))
        /\ cb_body.pc \in {"start", "calling", "raised"}
        /\ ~ cb_past_yield
        /\ cb_body.pc = "raised" =>
               /\ cb_task.pc \in {"none", "raised"}
               /\ cb_engine = "running" => cb_caller.status = "raised"
        /\ cb_phase # "test" => cb_caller.status = "raised"

C19_Witness ==
    /\ cb_test = CbTest(FALSE, "call", "KeyError", 2)
    /\ cb_phase = "finished"
    /\ cb_task.pc = "raised"
    /\ cb_caller = CbCaller("raised", Exc("KeyError", "This must fail"))

\* C20: while the task of test_infinite_loop_at_shutdown keeps registering
\* itself, the wait of Dispersy.stop does not go on beyond its 10 seconds:
\* stop returns then, with False (improper stop), and never with True.
C20_StopTimesOutOnEndlessTask ==
    (cb_test.submit = "loop") =>
        /\ cb_engine = "stopping" => cb_now <= cb_stop_deadline
        /\ \A i \in 1..Len(cb_stop_returned) :
               cb_stop_returned[i] = [result |-> FALSE, elapsed |-> 100]
        /\ ~ cb_stop_result
        /\ cb_phase # "test" => Len(cb_stop_returned) = 1
        /\ cb_caller.status # "pending" => Len(cb_stop_returned) = 1

C20_Witness ==
    /\ cb_test.submit = "loop"
    /\ cb_phase = "finished"
    /\ cb_stop_returned = << [result |-> FALSE, elapsed |-> 100] >>
    /\ cb_caller = CbCaller("raised", Exc("AssertionError", "This must fail"))


IntroFromBootstrap(item) == item.kind = "message" /\ item.cand \in BootstrapCandidates

IntroPassedMessage(item) == item.kind = "message" /\ item.cand \notin BootstrapCandidates

\* C22: every introduction request from a BootstrapCandidate is turned
\* into a DropMessage by check_introduction_request and never reaches
\* on_introduction_request (no REQ_IN2 line for it); every other item the
\* base check yields is passed through unchanged, in the same order.
C22_BootstrapRequestsDropped ==
    /\ Len(intro_checked) = Len(intro_batch)
    /\ \A i \in 1..Len(intro_batch) :
          IF IntroFromBootstrap(intro_batch[i])
          THEN intro_checked[i] = [kind |-> "DropMessage", cand |-> intro_batch[i].cand]
          ELSE intro_checked[i] = intro_batch[i]
    /\ intro_handled = SelectSeq(intro_batch, IntroPassedMessage)
    /\ \A i \in 1..Len(intro_handled) : intro_handled[i].cand \notin BootstrapCandidates
    /\ \A i \in 1..Len(intro_printed) : intro_printed[i].cand \notin BootstrapCandidates

C22_Witness ==
    /\ ~ intro_silent
    /\ intro_batch = <<[kind |-> "message", cand |-> "boot"], [kind |-> "message", cand |-> "peer"]>>
    /\ intro_checked = <<[kind |-> "DropMessage", cand |-> "boot"], [kind |-> "message", cand |-> "peer"]>>
    /\ intro_handled = <<[kind |-> "message", cand |-> "peer"]>>
    /\ intro_printed = <<PrintLine("REQ_IN2", "X", "peer")>>


(***************************************************************************)
(* Properties of the chat overlay.                                         *)
(***************************************************************************)
\* C23 as stated: check_beg_permission yields a beg-permission message
\* only when my_member is allowed both authorize and revoke for the text
\* meta; when either is not allowed every message of the batch yields
\* DropMessage and none reaches on_beg_permission.
C23_BegPermissionNeedsBothRights ==
    chat_event.op = "beg-permission" =>
        IF {"authorize", "revoke"} \subseteq chat_event.rights
        THEN \A i \in 1..Len(chat_event.yielded) : chat_event.yielded[i] = "message"
        ELSE /\ \A i \in 1..Len(chat_event.yielded) : chat_event.yielded[i] = "DropMessage"
             /\ chat_event.handled = 0

\* C24: create_text creates, stores and forwards a text message only when
\* the timeline allows my_member to permit a text message; when it does
\* not, no message is created, no global time is claimed and the store is
\* left unchanged.
C24_CreateTextNeedsPermit ==
    [][create_text =>
        IF "permit" \in chat_rights
        THEN LET message == [meta |-> "text", member |-> "me", global_time |-> chat_global_time]
             IN /\ chat_sync' = chat_sync \cup {message}
                /\ chat_forwarded' = chat_forwarded \cup {message}
                /\ chat_global_time' = chat_global_time + 1
        ELSE UNCHANGED <<chat_rights, chat_global_time, chat_sync, chat_forwarded,
                         chat_handled, chat_granted>>]_vars

C24_Witness ==
    /\ chat_event = ChatEvent("create_text", {"authorize"}, <<>>, 0)
    /\ chat_sync = {[meta |-> "text", member |-> "me", global_time |-> 1]}
    /\ chat_forwarded = chat_sync
    /\ chat_global_time = 2


(***************************************************************************)
(* Properties of the construction of FullSync messages.                    *)
(***************************************************************************)
\* C25: constructing a FullSync implementation succeeds only with a
\* positive sequence number when the meta has sequence numbers enabled,
\* and only with 0 when it has not; every other combination fails; so
\* every existing FullSync message of a meta without sequence numbers has
\* 0 and every one of a meta with sequence numbers a positive number.
C25_SequenceNumberMatchesMeta ==
    /\ impl_event.result = "ok" =>
          IF impl_event.meta = "sequence-text"
          THEN impl_event.sequence_number > 0
          ELSE impl_event.sequence_number = 0
    /\ impl_event.result = "AssertionError" =>
          IF impl_event.meta = "sequence-text"
          THEN impl_event.sequence_number <= 0
          ELSE impl_event.sequence_number # 0
    /\ \A message \in impl_existing :
          IF message.meta = "sequence-text"
          THEN message.sequence_number > 0
          ELSE message.sequence_number = 0

C25_Witness ==
    /\ impl_event = ImplEvent("sequence-text", 0, "AssertionError")
    /\ FullSyncImplementation("sequence-text", 1, 2) \in impl_existing
    /\ FullSyncImplementation("full-sync-text", 2, 0) \in impl_existing
    /\ \A message \in impl_existing : message.meta = "full-sync-text" => message.sequence_number = 0


(***************************************************************************)
(* Properties of what the tracker prints.                                  *)
(***************************************************************************)
\* C26: at every statistics tick the COMMUNITY line reports as live count
\* the number of loaded live overlays and as killed count the number of
\* loaded hard-killed overlays; an overlay that the strike rule unloaded
\* is not counted.
C26_StatisticsCountLoadedOverlays ==
    event.op = "statistics" =>
        /\ Len(printed) = 3
        /\ printed[2] = StatisticsLine("COMMUNITY",
                            <<Cardinality({cid \in CIDs : LoadedLive(cid)}),
                              Cardinality({cid \in CIDs : LoadedKilled(cid)})>>)

C26_Witness ==
    /\ event.op = "statistics"
    /\ printed[2] = StatisticsLine("COMMUNITY", <<1, 0>>)
    /\ LoadedLive("X")
    /\ "Y" \notin DOMAIN communities
    /\ classification["Y"] = TrackerCommunity

\* C27 as stated: with --silent the tracker prints nothing, whatever
\* messages arrive and whatever ticks pass.
C27_SilentPrintsNothing ==
    silent => printed = <<>>


\* C28 as stated: a packet whose overlay is not loaded and that comes from
\* a non-autoload (bootstrap) host is dropped and does not load the
\* overlay.
C28_BootstrapPacketsDoNotLoad ==
    [][\A cand \in non_autoload, cid \in CIDs :
          (ConvertPacketsIntoBatch(cand, cid) /\ cid \notin DOMAIN communities) =>
              (cid \notin DOMAIN communities' /\ event'.result = "drop")]_vars


(***************************************************************************)
(* Properties of the introduction requests the tracker makes.              *)
(***************************************************************************)
\* C29: create_introduction_request creates and sends no introduction
\* request when the destination is a BootstrapCandidate and leaves all
\* state unchanged; for any other destination it does what the base
\* engine does.
C29_NoStepTowardsTrackers ==
    [][\A community \in CIDs, destination \in WalkDestinations, allow_sync \in BOOLEAN, forward \in BOOLEAN :
          CreateIntroductionRequest(community, destination, allow_sync, forward) =>
             IF destination \in BootstrapCandidates
             THEN /\ UNCHANGED <<walk_created, walk_sent, trackerVars>>
                  /\ walk_event'.result = "None"
             ELSE LET base == Dispersy_create_introduction_request(
                                  walk_created, walk_sent, community, destination, allow_sync, forward)
                  IN /\ walk_created' = base.created
                     /\ walk_sent' = base.sent
                     /\ walk_event'.result = base.result]_vars

C29_Witness ==
    /\ walk_event = WalkEvent("boot", TRUE, "None")
    /\ walk_created = <<IntroductionRequestMessage("X", "peer", TRUE)>>
    /\ walk_sent = walk_created


(***************************************************************************)
(* Properties of the candidates the tracker introduces.                    *)
(***************************************************************************)
\* C30 as stated: one invocation of dispersy_yield_introduce_candidates
\* never yields the same candidate in two consecutive yields; when the
\* iterator returns the same candidate as the previous one, None is
\* yielded instead.
C30_NoCandidateTwiceInARow ==
    \A i \in 1..(Len(rr_yields) - 1) :
        rr_yields[i] # "None" => rr_yields[i + 1] # rr_yields[i]


(***************************************************************************)
(* Properties of the persistent storage file.                              *)
(***************************************************************************)
\* the packets of the messages of the chain among lines
StMessagePackets(lines) ==
    {StRawPacket(lines[i]) : i \in {j \in 1..Len(lines) :
        lines[j].name \notin {"#", "dispersy-identity"}}}

\* C33: the traversal of the proof chain in dispersy_cleanup_community
\* ends for every finite proof graph, with proofs that name each other or
\* are shared, and writes every packet that is reachable from the destroy
\* message through timeline proofs.
C33_CleanupWritesReachablePackets ==
    st_last_written # <<>> =>
        /\ StMessagePackets(st_last_written) =
              {Packet("X", m) : m \in ProofClosure(st_snap, {DestroyMessage})}
        /\ Len(st_last_written) <= 1 + 2 * Cardinality(ChainMessages)

C33_Witness ==
    /\ st_event.op = "cleanup"
    /\ st_snap.proofs[DestroyMessage] = <<"auth2">>
    /\ st_snap.proofs["auth2"] = <<"auth1">>
    /\ st_snap.proofs["auth1"] = <<"auth2">>
    /\ StMessagePackets(st_last_written) = {Packet("X", m) : m \in ChainMessages}

\* C34 as stated: during one dispersy_cleanup_community call no line
\* other than a comment is written to the file more than once: every
\* message packet once, and the dispersy-identity packet of a member once
\* even when several messages of the chain are of that member.
C34_NoLineWrittenTwice ==
    \A i, j \in 1..Len(st_last_written) :
        (i < j /\ StNotComment(st_last_written[i])) => st_last_written[i] # st_last_written[j]

\* C35: the packets _load_persistent_storage reads from the file are
\* exactly the packets all earlier dispersy_cleanup_community calls wrote,
\* in the order they were written, and they go to the engine in the
\* reverse of that order; without a file nothing is loaded and no error
\* is raised.
C35_StorageRoundTrips ==
    [][StorageRestart =>
          /\ st_loaded' = st_packets
          /\ st_fed' = Reverse(st_packets)
          /\ st_event'.result = ""
          /\ ~ st_exists => (st_loaded' = <<>> /\ st_fed' = <<>>)]_vars

C35_Witness ==
    /\ st_event.op = "load"
    /\ st_restarts = 2
    /\ Len(st_loaded) >= 6
    /\ st_loaded[1] = Packet("X", DestroyMessage)
    /\ st_fed[Len(st_fed)] = Packet("X", DestroyMessage)
    /\ \E i \in 1..Len(st_loaded) : st_loaded[i] = IdentityPacket("X", "master")

\* C36 as stated: when the file is reloaded in reverse order every proof
\* packet goes to the engine before every message whose timeline check
\* needs it, for every proof graph.
C36_ProofsLoadedBeforeMessages ==
    st_event.op = "load" =>
        \A i \in 1..Len(st_fed), m \in ChainMessages :
            st_fed[i] = Packet("X", m) =>
                \A k \in 1..Len(st_snap.proofs[m]) :
                    \E j \in 1..(i - 1) : st_fed[j] = Packet("X", st_snap.proofs[m][k])

\* C37 as stated: reloading the storage at startup does not grow the
\* file: after _load_persistent_storage the file holds the same lines as
\* before.
C37_ReloadKeepsFile ==
    [][StorageRestart => st_file' = st_file]_vars


(***************************************************************************)
(* Properties of one invocation of dispersy_yield_introduce_candidates     *)
(* next to others that share its iterator.                                 *)
(***************************************************************************)
\* C31: dispersy_yield_introduce_candidates(candidate) never yields the
\* requesting candidate itself, whatever the candidates of the overlay,
\* the position of the shared iterator and the other invocations that
\* take items of it in between.
C31_RequesterIsNeverYielded ==
    \A i \in 1..Len(rr_yields) :
        rr_yields[i] # "None" => rr_yields[i] # rr_candidate

C31_Witness ==
    /\ rr_candidates = <<"c", "a">>
    /\ rr_candidate = "c"
    /\ rr_results = <<"c", "a", "a">>
    /\ rr_yields = <<"a", "None">>

\* C32: every resumption of dispersy_yield_introduce_candidates yields a
\* value, a candidate or None, after taking at most two items of the
\* iterator; when the only candidate is the requester it yields None.
C32_ResumptionTakesAtMostTwoItems ==
    [][NextIntroduceCandidate =>
          /\ Len(rr_yields') = Len(rr_yields) + 1
          /\ Len(rr_results') - Len(rr_results) \in 1..2
          /\ rr_candidates = <<rr_candidate>> => rr_yields'[Len(rr_yields')] = "None"]_vars

C32_Witness ==
    /\ rr_candidates = <<"c">>
    /\ rr_candidate = "c"
    /\ rr_results = <<"c", "c", "c">>
    /\ rr_yields = <<"None", "None">>


(***************************************************************************)
(* Properties of the pruning state over time.                              *)
(***************************************************************************)
PruningRank(state) ==
    CASE state = "active" -> 0
      [] state = "inactive" -> 1
      [] state = "pruned" -> 2

\* C39: as the global time of the overlay never decreases, the pruning
\* state of a message under GlobalTimePruning only moves along active ->
\* inactive -> pruned: a message that was inactive is never active again
\* and a message that was pruned stays pruned.
C39_PruningStateMovesForward ==
    [][(distribution_global_time > 0 /\ distribution_global_time' = distribution_global_time) =>
          PruningRank(get_state(pruning, community_global_time, distribution_global_time))
             <= PruningRank(get_state(pruning', community_global_time', distribution_global_time'))]_vars

C39_Witness ==
    /\ pruning.kind = "GlobalTimePruning"
    /\ distribution_global_time = 1
    /\ pruning.inactive_threshold = 1
    /\ community_global_time - distribution_global_time >= pruning.prune_threshold
    /\ pruning_state = "pruned"


(***************************************************************************)
(* Properties of the sequence numbers over reloads.                        *)
(***************************************************************************)
\* C40 as stated: no two distinct messages my_member creates for a meta
\* with sequence numbers carry the same sequence number, over any
\* interleaving of create_sequence_text calls, with store true or false,
\* and reloads of the overlay that run FullSyncDistribution.setup again:
\* every created message carries a number no earlier message carried.
C40_SequenceNumbersAreNeverReused ==
    [][(\E store \in BOOLEAN : CreateSequenceText(store)) =>
          current_sequence_number' \notin seq_all_issued]_vars


(***************************************************************************)
(* Properties of the conversion table.                                     *)
(***************************************************************************)
\* the default is registered and no registered conversion has a higher
\* version; once get_conversion created a conversion the default is one
\* it created
ConvDefaultIsHighestCreated ==
    /\ \E p \in DOMAIN conv_conversions : conv_conversions[p] = conv_default
    /\ \A p \in DOMAIN conv_conversions : conv_conversions[p].version <= conv_default.version
    /\ conv_created # {} =>
          /\ conv_default \in conv_created
          /\ \A c \in conv_created \ {conv_default} : c.version < conv_default.version

\* C38: after any sequence of get_conversion calls of a tracker overlay
\* the default conversion (key None) is the registered conversion with the
\* highest community version among those get_conversion created; a call
\* with a prefix whose dispersy version byte is not 0x00 raises KeyError
\* and leaves the table and the default unchanged.
C38_DefaultIsHighestVersion ==
    [][\A prefix \in ConvPrefixes \cup {None} :
          GetConversion(prefix) =>
              /\ ConvDefaultIsHighestCreated'
              /\ (prefix # None /\ prefix[1] # 0) =>
                    /\ conv_event'.raised = "KeyError"
                    /\ UNCHANGED <<conv_conversions, conv_default>>]_vars

\* three conversions were created, the default is not the one with the
\* highest prefix version possible, and the last call raised KeyError
C38_Witness ==
    /\ conv_event.raised = "KeyError"
    /\ Cardinality(conv_created) = 3
    /\ conv_default.version < MaxVersion
    /\ \E c \in conv_created : c.version < conv_default.version

====
